---- MODULE Spec2Model ----
(***************************************************************************)
(* Handle-table bridge of onebit-yoga (src/onebit-yoga/src/ffi/yoga_wrap.c) *)
(* between integer handles and foreign Yoga nodes / configs.               *)
(*                                                                         *)
(* A HandleTable is the record                                             *)
(*   [items, free_list, capacity, count, high_water_mark]                  *)
(* where items is the slot array (a sequence of length capacity, slot i of *)
(* the C array is items[i+1]; the C NULL array is the empty sequence) and  *)
(* free_list is the used prefix of the C free_list array, so that          *)
(* free_count = Len(free_list).                                            *)
(*                                                                         *)
(* The Yoga library is the foreign collaborator: its heap is the function  *)
(* nodes (allocated node address -> [owner, children, config, style,       *)
(* layout]) and configs (allocated config address -> [web_defaults]).      *)
(* Its calls are modelled by their documented effect on that heap.         *)
(*                                                                         *)
(* Three smaller programs of the repository follow, each with its own      *)
(* specification: the simple wrapper yoga_wrapper.c (SpecSimple), raw mode *)
(* and resize notification of opentui_wrap.c (SpecTui, SpecTuiFair) and    *)
(* the Terminal objects of lib/terminal.c (SpecTerm).                      *)
(***************************************************************************)
EXTENDS Integers, Sequences, FiniteSets, TLC

VARIABLES node_table, config_table, nodes, configs, last, issued, held, memo, pending,
          before, script, steps

yoga_vars == <<node_table, config_table, nodes, configs, last, issued, held, memo, pending,
               before, script, steps>>

\* The simple wrapper (src/onebit-yoga/src/ffi/yoga_wrapper.c): its two
\* handle arrays (slot i of the C array is element i+1, the capacity is the
\* length), its two counters, and whether the process was aborted by the
\* foreign library.  It shares the Yoga heap (nodes, configs) and the record
\* of the last call (last).
VARIABLES node_handles, config_handles, node_handle_count, config_handle_count, aborted

simple_vars == <<node_handles, config_handles, node_handle_count, config_handle_count,
                 aborted>>

\* The terminal the process is attached to: the settings of each terminal
\* device (shared by every process on it) and the descriptors this process
\* has open on /dev/tty.
VARIABLES settings, descriptors

\* Raw-mode switching and resize notification of
\* src/onebit-tui/src/ffi/opentui_wrap.c: its statics, whether its SIGWINCH
\* handler is installed, and the position of the caller inside
\* wasTerminalResized (poll.pc is "idle" between calls, "tested" after the
\* read of the flag, whose value is poll.seen).  Ghosts: tui_last is the
\* last call completed, enabled_with the descriptor and the terminal
\* settings found by the call that turned raw mode on, unreported whether a
\* signal was delivered that no completed wasTerminalResized call returning
\* true has followed yet.
VARIABLES orig_termios, raw_mode_enabled, tty_fd, terminal_resized, handler_installed, poll,
          tui_last, enabled_with, unreported

tui_vars == <<orig_termios, raw_mode_enabled, tty_fd, terminal_resized, handler_installed,
              poll, tui_last, enabled_with, unreported>>

\* src/onebit-tui/lib/terminal.c: the Terminal objects on the C heap
\* (address -> [orig_termios, raw_mode]), the static global_term, whether
\* restore_terminal is registered with atexit, whether the process has
\* exited, and the pointers its caller got from zig_terminal_init and has
\* not given back (term_held).
VARIABLES terminals, global_term, atexit_registered, exited, term_held

term_vars == <<terminals, global_term, atexit_registered, exited, term_held>>

vars == <<yoga_vars, simple_vars, settings, descriptors, tui_vars, term_vars>>

(* ---------------------------------------------------------------- bounds *)

\* Size of the foreign address pool for nodes (addresses 1..MaxNodes).
MaxNodes == 67

\* Size of the foreign address pool for configs.
MaxConfigs == 34

\* Number of freely chosen operations after the scripted prefix of a run.
MaxSteps == 2

\* Number of handles of each kind the simple wrapper's caller asks for.
MaxSimple == 3

\* Number of descriptors the process may have open on /dev/tty before open
\* fails.
MaxDescriptors == 2

\* Size of the address pool malloc draws Terminal objects from.
MaxTerminals == 2

(* ------------------------------------------------------ program constants *)

NULL == 0

\* Minimum (and first) capacity of a table.
MIN_CAPACITY == 16

\* A table is compacted only with more than this many free ids.
COMPACT_MIN_FREE == 32

\* Descriptor of the standard input.
STDIN_FILENO == 0

NodePtrs == 1..MaxNodes

ConfigPtrs == (MaxNodes + 1)..(MaxNodes + MaxConfigs)

(* ---------------------------------------------------------------- helpers *)

Range(seq) == {seq[i] : i \in 1..Len(seq)}

Max(S) == CHOOSE x \in S : \A y \in S : y <= x

Min(S) == CHOOSE x \in S : \A y \in S : x <= y

\* seq with every occurrence of x dropped.
RECURSIVE Without(_, _)
Without(seq, x) ==
    IF seq = <<>> THEN <<>>
    ELSE IF Head(seq) = x THEN Without(Tail(seq), x)
    ELSE <<Head(seq)>> \o Without(Tail(seq), x)

\* seq with x inserted so that it ends up at 0-based position index.
InsertAt(seq, index, x) ==
    SubSeq(seq, 1, index) \o <<x>> \o SubSeq(seq, index + 1, Len(seq))

\* n NULL slots.
Zeros(n) == [i \in 1..n |-> NULL]

\* The slots of a table that hold a pointer, as 0-based indices.
Occupied(table) == {i \in 0..(Len(table.items) - 1) : table.items[i + 1] # NULL}

\* Highest occupied slot, -1 when none.
MaxOcc(table) == IF Occupied(table) = {} THEN -1 ELSE Max(Occupied(table))

(* ----------------------------------------------------------- handle table *)

\* static HandleTable node_table = {NULL, NULL, 0, 0, 0, 0};
EmptyTable ==
    [items |-> <<>>, free_list |-> <<>>, capacity |-> 0, count |-> 0,
     high_water_mark |-> 0]

\* A slip that grows the storage by MIN_CAPACITY slots instead of doubling.
handle_table_grow_by_min(table) ==
    [table EXCEPT !.items = @ \o Zeros(MIN_CAPACITY), !.capacity = @ + MIN_CAPACITY]

\* A slip that zeroes the whole new block, not only the new slots.
handle_table_grow_clears_all(table) ==
    LET new_capacity == IF table.capacity = 0 THEN MIN_CAPACITY ELSE table.capacity * 2
    IN  [table EXCEPT !.items = Zeros(new_capacity), !.capacity = new_capacity]

\* The growth step of handle_table_add (realloc succeeds): double the
\* storage, 16 from 0, and zero the new slots.
handle_table_grow(table) ==
    LET new_capacity == IF table.capacity = 0 THEN MIN_CAPACITY ELSE table.capacity * 2
    IN  [table EXCEPT !.items = @ \o Zeros(new_capacity - table.capacity),
                      !.capacity = new_capacity]

\* A slip that recycles the oldest free id instead of the newest.
handle_table_add_oldest_first(table, ptr) ==
    IF ptr = NULL THEN [table |-> table, handle |-> -1]
    ELSE IF Len(table.free_list) > 0
    THEN [table |-> [table EXCEPT !.free_list = Tail(@),
                                  !.items[table.free_list[1] + 1] = ptr],
          handle |-> table.free_list[1]]
    ELSE LET grown == IF table.count >= table.capacity THEN handle_table_grow(table) ELSE table
         IN  [table |-> [grown EXCEPT !.count = @ + 1,
                                      !.items[grown.count + 1] = ptr,
                                      !.high_water_mark = IF grown.count > @ THEN grown.count ELSE @],
              handle |-> grown.count]

handle_table_add(table, ptr) ==
    IF ptr = NULL THEN [table |-> table, handle |-> -1]
    ELSE IF Len(table.free_list) > 0
    THEN \* recycled id: the slot is written, high_water_mark is not updated
         LET handle == table.free_list[Len(table.free_list)]
         IN  [table |-> [table EXCEPT !.free_list = SubSeq(@, 1, Len(@) - 1),
                                      !.items[handle + 1] = ptr],
              handle |-> handle]
    ELSE LET grown == IF table.count >= table.capacity THEN handle_table_grow(table) ELSE table
             handle == grown.count
         IN  [table |-> [grown EXCEPT !.count = @ + 1,
                                      !.items[handle + 1] = ptr,
                                      !.high_water_mark = IF handle > @ THEN handle ELSE @],
              handle |-> handle]

\* A slip that bounds the handle by high_water_mark instead of count.
handle_table_get_below_mark(table, handle) ==
    IF table.items = <<>> \/ handle < 0 \/ handle > table.high_water_mark THEN NULL
    ELSE table.items[handle + 1]

handle_table_get(table, handle) ==
    IF table.items = <<>> \/ handle < 0 \/ handle >= table.count THEN NULL
    ELSE table.items[handle + 1]

\* A slip that puts the id on the free list and leaves the pointer in the slot.
handle_table_remove_keep_slot(table, handle) ==
    IF table.items = <<>> THEN table
    ELSE IF handle >= 0 /\ handle < table.count /\ table.items[handle + 1] # NULL
    THEN IF Len(table.free_list) < table.capacity
         THEN [table EXCEPT !.free_list = Append(@, handle)]
         ELSE table
    ELSE table

handle_table_remove(table, handle) ==
    IF table.items = <<>> THEN table
    ELSE IF handle >= 0 /\ handle < table.count /\ table.items[handle + 1] # NULL
    THEN LET cleared == [table EXCEPT !.items[handle + 1] = NULL]
             pushed == IF Len(cleared.free_list) < cleared.capacity
                       THEN [cleared EXCEPT !.free_list = Append(@, handle)]
                       ELSE cleared
             below == {i \in 0..(pushed.high_water_mark - 1) : pushed.items[i + 1] # NULL}
             new_mark == IF below = {} THEN -1 ELSE Max(below)
         IN  IF handle = pushed.high_water_mark
             THEN [pushed EXCEPT !.high_water_mark = new_mark]
             ELSE pushed
    ELSE table

\* A slip that tests the slot the wrong way round and lists the occupied
\* slots of 0..high_water_mark.
RECURSIVE rebuild_free_list_occupied(_, _, _)
rebuild_free_list_occupied(table, i, acc) ==
    IF i > table.high_water_mark THEN acc
    ELSE rebuild_free_list_occupied(table, i + 1,
            IF table.items[i + 1] # NULL /\ Len(acc) < table.capacity
            THEN Append(acc, i) ELSE acc)

\* The free list rebuilt by handle_table_compact: the empty slots of
\* 0..high_water_mark in increasing order.
RECURSIVE rebuild_free_list(_, _, _)
rebuild_free_list(table, i, acc) ==
    IF i > table.high_water_mark THEN acc
    ELSE rebuild_free_list(table, i + 1,
            IF table.items[i + 1] = NULL /\ Len(acc) < table.capacity
            THEN Append(acc, i) ELSE acc)

\* A slip that sets count to the number of slots up to high_water_mark.
handle_table_compact_count_by_mark(table) ==
    IF table.high_water_mark < 0
    THEN [items |-> <<>>, free_list |-> <<>>, capacity |-> 0, count |-> 0,
          high_water_mark |-> -1]
    ELSE LET target_capacity == IF table.high_water_mark + 1 < MIN_CAPACITY
                                THEN MIN_CAPACITY ELSE table.high_water_mark + 1
         IN  IF target_capacity < table.capacity \div 4
             THEN LET shrunk == [table EXCEPT !.items = SubSeq(@, 1, target_capacity),
                                              !.capacity = target_capacity,
                                              !.count = table.high_water_mark + 1]
                  IN  [shrunk EXCEPT !.free_list = rebuild_free_list(shrunk, 0, <<>>)]
             ELSE table

\* A slip that shrinks the storage and leaves the free list as it was.
handle_table_compact_keep_free_list(table) ==
    IF table.high_water_mark < 0
    THEN [items |-> <<>>, free_list |-> <<>>, capacity |-> 0, count |-> 0,
          high_water_mark |-> -1]
    ELSE LET target_capacity == IF table.high_water_mark + 1 < MIN_CAPACITY
                                THEN MIN_CAPACITY ELSE table.high_water_mark + 1
         IN  IF target_capacity < table.capacity \div 4
             THEN [table EXCEPT !.items = SubSeq(@, 1, target_capacity),
                                !.capacity = target_capacity,
                                !.count = target_capacity]
             ELSE table

\* A slip that leaves out the quarter-of-capacity test and always shrinks to
\* the target capacity.
handle_table_compact_always(table) ==
    IF table.high_water_mark < 0
    THEN [items |-> <<>>, free_list |-> <<>>, capacity |-> 0, count |-> 0,
          high_water_mark |-> -1]
    ELSE LET target_capacity == IF table.high_water_mark + 1 < MIN_CAPACITY
                                THEN MIN_CAPACITY ELSE table.high_water_mark + 1
             shrunk == [table EXCEPT !.items = SubSeq(@, 1, target_capacity),
                                     !.capacity = target_capacity,
                                     !.count = target_capacity]
         IN  [shrunk EXCEPT !.free_list = rebuild_free_list(shrunk, 0, <<>>)]

\* A failing realloc in the shrinking branch keeps the old, larger block:
\* the code then only ever reads slots below the new capacity, and a later
\* growth zeroes every slot from the new capacity on, so both outcomes of
\* realloc give the table modelled here.
handle_table_compact(table) ==
    IF table.high_water_mark < 0
    THEN [items |-> <<>>, free_list |-> <<>>, capacity |-> 0, count |-> 0,
          high_water_mark |-> -1]
    ELSE LET target_capacity == IF table.high_water_mark + 1 < MIN_CAPACITY
                                THEN MIN_CAPACITY ELSE table.high_water_mark + 1
         IN  IF target_capacity < table.capacity \div 4
             THEN LET shrunk == [table EXCEPT !.items = SubSeq(@, 1, target_capacity),
                                              !.capacity = target_capacity,
                                              !.count = target_capacity]
                  IN  [shrunk EXCEPT !.free_list = rebuild_free_list(shrunk, 0, <<>>)]
             ELSE table

\* A slip that leaves out the half-of-capacity test.
compact_due_without_half(table) == Len(table.free_list) > COMPACT_MIN_FREE

\* The trigger both free wrappers test after handle_table_remove.
compact_due(table) ==
    Len(table.free_list) > COMPACT_MIN_FREE /\ Len(table.free_list) > table.capacity \div 2

(* ------------------------------------------------- foreign library (Yoga) *)

\* The nodes of the subtree rooted at node, in the heap hp.
RECURSIVE Subtree(_, _)
Subtree(hp, node) ==
    {node} \cup UNION {Subtree(hp, hp[node].children[i]) : i \in 1..Len(hp[node].children)}

\* YGNodeNew / YGNodeNewWithConfig returning the free address ptr.
YGNodeNewWithConfig(hp, ptr, config) ==
    [n \in DOMAIN hp \cup {ptr} |->
        IF n = ptr
        THEN [owner |-> NULL, children |-> <<>>, config |-> config, style |-> 0, layout |-> 0]
        ELSE hp[n]]

YGNodeNew(hp, ptr) == YGNodeNewWithConfig(hp, ptr, NULL)

\* YGNodeFree: unlink the node from its owner, orphan its children, release it.
YGNodeFree(hp, node) ==
    [n \in DOMAIN hp \ {node} |->
        IF n = hp[node].owner THEN [hp[n] EXCEPT !.children = Without(@, node)]
        ELSE IF n \in Range(hp[node].children) THEN [hp[n] EXCEPT !.owner = NULL]
        ELSE hp[n]]

\* YGNodeFreeRecursive: release the node and every descendant.
YGNodeFreeRecursive(hp, node) ==
    LET gone == Subtree(hp, node)
    IN  [n \in DOMAIN hp \ gone |->
            IF n = hp[node].owner THEN [hp[n] EXCEPT !.children = Without(@, node)]
            ELSE hp[n]]

\* YGNodeGetChildCount. Reading a released node is undefined; the bridge is
\* meant never to do it, and the walk below records every node it reads.
YGNodeGetChildCount(hp, node) ==
    IF node \in DOMAIN hp THEN Len(hp[node].children) ELSE 0

\* YGNodeGetChild: NULL when index is not a position of the child list.
YGNodeGetChild(hp, node, index) ==
    IF node \in DOMAIN hp /\ index >= 0 /\ index < Len(hp[node].children)
    THEN hp[node].children[index + 1]
    ELSE NULL

\* YGNodeInsertChild asserts that the child has no owner; the position must
\* be one of the child list and the child must not be an ancestor of the
\* parent (the library keeps a tree).
CanInsertChild(hp, parent, child, index) ==
    /\ hp[child].owner = NULL
    /\ parent \notin Subtree(hp, child)
    /\ index >= 0 /\ index <= Len(hp[parent].children)

YGNodeInsertChild(hp, parent, child, index) ==
    [hp EXCEPT ![parent].children = InsertAt(@, index, child),
               ![child].owner = parent]

\* YGNodeRemoveChild: nothing happens unless child is a child of parent.
YGNodeRemoveChild(hp, parent, child) ==
    IF child \in Range(hp[parent].children)
    THEN [hp EXCEPT ![parent].children = Without(@, child), ![child].owner = NULL]
    ELSE hp

\* The homogeneous YGNodeStyleSet* family: one style value per node.
YGNodeStyleSet(hp, node, value) == [hp EXCEPT ![node].style = value]

\* YGNodeCalculateLayout: lays out the node and its descendants.
YGNodeCalculateLayout(hp, node, width) ==
    [n \in DOMAIN hp |->
        IF n \in Subtree(hp, node) THEN [hp[n] EXCEPT !.layout = width] ELSE hp[n]]

\* YGNodeLayoutGet{Left,Top,Width,Height}.
YGNodeLayoutGet(hp, node) == hp[node].layout

YGConfigNew(cf, ptr) ==
    [c \in DOMAIN cf \cup {ptr} |-> IF c = ptr THEN [web_defaults |-> FALSE] ELSE cf[c]]

YGConfigFree(cf, config) == [c \in DOMAIN cf \ {config} |-> cf[c]]

YGConfigSetUseWebDefaults(cf, config, enabled) ==
    [cf EXCEPT ![config].web_defaults = enabled]

(* --------------------------------------------------------------- wrappers *)
(* A wrapper takes the bridge state                                        *)
(*   s = [node_table, config_table, nodes, configs]                        *)
(* and its arguments, and gives [s |-> the state after, ret |-> the value   *)
(* returned (0 for a void wrapper)]. ptr is the address the foreign         *)
(* constructor returns.                                                     *)

YGConfigNew_wrap(s, ptr) ==
    LET added == handle_table_add(s.config_table, ptr)
    IN  [s |-> [s EXCEPT !.configs = YGConfigNew(@, ptr), !.config_table = added.table],
         ret |-> added.handle]

\* A slip that removes the handle from the node table.
YGConfigFree_wrap_wrong_table(s, handle) ==
    LET config == handle_table_get(s.config_table, handle)
    IN  IF config # NULL
        THEN [s |-> [s EXCEPT !.configs = YGConfigFree(@, config),
                              !.node_table = handle_table_remove(@, handle)],
              ret |-> 0]
        ELSE [s |-> s, ret |-> 0]

YGConfigFree_wrap(s, handle) ==
    LET config == handle_table_get(s.config_table, handle)
        removed == handle_table_remove(s.config_table, handle)
    IN  IF config # NULL
        THEN [s |-> [s EXCEPT !.configs = YGConfigFree(@, config),
                              !.config_table = IF compact_due(removed)
                                               THEN handle_table_compact(removed)
                                               ELSE removed],
              ret |-> 0]
        ELSE [s |-> s, ret |-> 0]

YGConfigSetUseWebDefaults_wrap(s, handle, enabled) ==
    LET config == handle_table_get(s.config_table, handle)
    IN  IF config # NULL
        THEN [s |-> [s EXCEPT !.configs = YGConfigSetUseWebDefaults(@, config, enabled # 0)],
              ret |-> 0]
        ELSE [s |-> s, ret |-> 0]

YGNodeNew_wrap(s, ptr) ==
    LET added == handle_table_add(s.node_table, ptr)
    IN  [s |-> [s EXCEPT !.nodes = YGNodeNew(@, ptr), !.node_table = added.table],
         ret |-> added.handle]

\* A slip that treats an absent config like every other invalid handle:
\* nothing is constructed and -1 is returned.
YGNodeNewWithConfig_wrap_strict(s, config_handle, ptr) ==
    LET config == handle_table_get(s.config_table, config_handle)
        added == handle_table_add(s.node_table, ptr)
    IN  IF config = NULL THEN [s |-> s, ret |-> -1]
        ELSE [s |-> [s EXCEPT !.nodes = YGNodeNewWithConfig(@, ptr, config),
                              !.node_table = added.table],
              ret |-> added.handle]

YGNodeNewWithConfig_wrap(s, config_handle, ptr) ==
    LET config == handle_table_get(s.config_table, config_handle)
        added == handle_table_add(s.node_table, ptr)
    IN  [s |-> [s EXCEPT !.nodes = IF config # NULL
                                   THEN YGNodeNewWithConfig(@, ptr, config)
                                   ELSE YGNodeNew(@, ptr),
                         !.node_table = added.table],
         ret |-> added.handle]

\* A slip that frees the node's subtree natively and removes one handle.
YGNodeFree_wrap_recursive_native(s, handle) ==
    LET node == handle_table_get(s.node_table, handle)
        removed == handle_table_remove(s.node_table, handle)
    IN  IF node # NULL
        THEN [s |-> [s EXCEPT !.nodes = YGNodeFreeRecursive(@, node),
                              !.node_table = IF compact_due(removed)
                                             THEN handle_table_compact(removed)
                                             ELSE removed],
              ret |-> 0]
        ELSE [s |-> s, ret |-> 0]

YGNodeFree_wrap(s, handle) ==
    LET node == handle_table_get(s.node_table, handle)
        removed == handle_table_remove(s.node_table, handle)
    IN  IF node # NULL
        THEN [s |-> [s EXCEPT !.nodes = YGNodeFree(@, node),
                              !.node_table = IF compact_due(removed)
                                             THEN handle_table_compact(removed)
                                             ELSE removed],
              ret |-> 0]
        ELSE [s |-> s, ret |-> 0]

\* One entry of the record of foreign calls made by a handler: the call, the
\* node it is made on, and whether that node is allocated when it is made.
Call(name, node, hp) == <<name, node, node \in DOMAIN hp>>

\* A slip that clears every slot the scan passes, up to the one holding node.
scrub_slot_through(table, node) ==
    LET found == {i \in 0..(table.count - 1) : table.items[i + 1] = node}
    IN  IF found = {} THEN table
        ELSE [table EXCEPT !.items = [i \in 1..Len(@) |-> IF i <= Min(found) + 1 THEN NULL ELSE @[i]]]

\* The scan of remove_node_handles_recursive: clear the first slot below
\* count that holds node, and nothing else.
scrub_slot(table, node) ==
    LET found == {i \in 0..(table.count - 1) : table.items[i + 1] = node}
    IN  IF found = {} THEN table
        ELSE [table EXCEPT !.items[Min(found) + 1] = NULL]

\* A slip that clears the handle of the node alone, without the walk over its
\* children.
remove_node_handle_only(st, hp, node) ==
    IF node = NULL THEN st
    ELSE [st EXCEPT !.table = scrub_slot(@, node),
                    !.calls = Append(@, Call("YGNodeGetChildCount", node, hp))]

\* st = [table, calls]: the node table and the foreign calls made so far.
\* The children are walked first (through the library's child count and
\* child-at-index accessors), then the node's own slot is cleared.
RECURSIVE remove_node_handles_recursive(_, _, _)
remove_node_handles_recursive(st, hp, node) ==
    IF node = NULL THEN st
    ELSE LET child_count == YGNodeGetChildCount(hp, node)
             counted == [st EXCEPT !.calls = Append(@, Call("YGNodeGetChildCount", node, hp))]
             RECURSIVE walk(_, _)
             walk(acc, i) ==
                 IF i >= child_count THEN acc
                 ELSE LET child == YGNodeGetChild(hp, node, i)
                          asked == [acc EXCEPT !.calls = Append(@, Call("YGNodeGetChild", node, hp))]
                      IN  walk(IF child # NULL
                               THEN remove_node_handles_recursive(asked, hp, child)
                               ELSE asked,
                               i + 1)
             walked == walk(counted, 0)
         IN  [walked EXCEPT !.table = scrub_slot(@, node)]

\* A slip that frees natively first and scrubs the handles afterwards.
YGNodeFreeRecursive_wrap_free_first(s, handle) ==
    LET node == handle_table_get(s.node_table, handle)
        freed == YGNodeFreeRecursive(s.nodes, node)
        scrubbed == remove_node_handles_recursive(
                        [table |-> s.node_table,
                         calls |-> <<Call("YGNodeFreeRecursive", node, s.nodes)>>],
                        freed, node)
    IN  IF node # NULL
        THEN [s |-> [s EXCEPT !.node_table = scrubbed.table, !.nodes = freed],
              ret |-> 0,
              calls |-> scrubbed.calls]
        ELSE [s |-> s, ret |-> 0, calls |-> <<>>]

\* ret.calls is the sequence of foreign calls the wrapper made, in order.
YGNodeFreeRecursive_wrap(s, handle) ==
    LET node == handle_table_get(s.node_table, handle)
        scrubbed == remove_node_handles_recursive(
                        [table |-> s.node_table, calls |-> <<>>], s.nodes, node)
    IN  IF node # NULL
        THEN [s |-> [s EXCEPT !.node_table = scrubbed.table,
                              !.nodes = YGNodeFreeRecursive(@, node)],
              ret |-> 0,
              calls |-> Append(scrubbed.calls, Call("YGNodeFreeRecursive", node, s.nodes))]
        ELSE [s |-> s, ret |-> 0, calls |-> <<>>]

YGNodeCalculateLayout_wrap(s, handle, width) ==
    LET node == handle_table_get(s.node_table, handle)
    IN  IF node # NULL
        THEN [s |-> [s EXCEPT !.nodes = YGNodeCalculateLayout(@, node, width)], ret |-> 0]
        ELSE [s |-> s, ret |-> 0]

\* YGNodeLayoutGet{Left,Top,Width,Height}_wrap
YGNodeLayoutGet_wrap(s, handle) ==
    LET node == handle_table_get(s.node_table, handle)
    IN  [s |-> s, ret |-> IF node # NULL THEN YGNodeLayoutGet(s.nodes, node) ELSE 0]

\* The YGNodeStyleSet*_wrap family.
YGNodeStyleSet_wrap(s, handle, value) ==
    LET node == handle_table_get(s.node_table, handle)
    IN  IF node # NULL
        THEN [s |-> [s EXCEPT !.nodes = YGNodeStyleSet(@, node, value)], ret |-> 0]
        ELSE [s |-> s, ret |-> 0]

\* A slip that registers the inserted child in the node table once more.
YGNodeInsertChild_wrap_adds_child(s, parent_handle, child_handle, index) ==
    LET parent == handle_table_get(s.node_table, parent_handle)
        child == handle_table_get(s.node_table, child_handle)
    IN  IF parent # NULL /\ child # NULL
        THEN [s |-> [s EXCEPT !.nodes = YGNodeInsertChild(@, parent, child, index),
                              !.node_table = handle_table_add(@, child).table],
              ret |-> 0]
        ELSE [s |-> s, ret |-> 0]

YGNodeInsertChild_wrap(s, parent_handle, child_handle, index) ==
    LET parent == handle_table_get(s.node_table, parent_handle)
        child == handle_table_get(s.node_table, child_handle)
    IN  IF parent # NULL /\ child # NULL
        THEN [s |-> [s EXCEPT !.nodes = YGNodeInsertChild(@, parent, child, index)], ret |-> 0]
        ELSE [s |-> s, ret |-> 0]

\* A slip that gives up the handle of the detached child.
YGNodeRemoveChild_wrap_drops_handle(s, parent_handle, child_handle) ==
    LET parent == handle_table_get(s.node_table, parent_handle)
        child == handle_table_get(s.node_table, child_handle)
    IN  IF parent # NULL /\ child # NULL
        THEN [s |-> [s EXCEPT !.nodes = YGNodeRemoveChild(@, parent, child),
                              !.node_table = handle_table_remove(@, child_handle)],
              ret |-> 0]
        ELSE [s |-> s, ret |-> 0]

YGNodeRemoveChild_wrap(s, parent_handle, child_handle) ==
    LET parent == handle_table_get(s.node_table, parent_handle)
        child == handle_table_get(s.node_table, child_handle)
    IN  IF parent # NULL /\ child # NULL
        THEN [s |-> [s EXCEPT !.nodes = YGNodeRemoveChild(@, parent, child)], ret |-> 0]
        ELSE [s |-> s, ret |-> 0]

YGNodeGetChildCount_wrap(s, handle) ==
    LET parent == handle_table_get(s.node_table, handle)
    IN  [s |-> s, ret |-> IF parent # NULL THEN YGNodeGetChildCount(s.nodes, parent) ELSE 0]

\* A slip that adds a handle for the child without looking for an existing one.
YGNodeGetChild_wrap_noscan(s, parent_handle, index) ==
    LET parent == handle_table_get(s.node_table, parent_handle)
        child == YGNodeGetChild(s.nodes, parent, index)
        added == handle_table_add(s.node_table, child)
    IN  IF parent = NULL THEN [s |-> s, ret |-> -1]
        ELSE IF child = NULL THEN [s |-> s, ret |-> -1]
        ELSE [s |-> [s EXCEPT !.node_table = added.table], ret |-> added.handle]

\* A slip that leaves out both early returns, so that the scan runs for an
\* absent child and matches the first empty slot.
YGNodeGetChild_wrap_noguard(s, parent_handle, index) ==
    LET parent == handle_table_get(s.node_table, parent_handle)
        child == YGNodeGetChild(s.nodes, parent, index)
        found == {i \in 0..(s.node_table.count - 1) : s.node_table.items[i + 1] = child}
        added == handle_table_add(s.node_table, child)
    IN  IF found # {} THEN [s |-> s, ret |-> Min(found)]
        ELSE [s |-> [s EXCEPT !.node_table = added.table], ret |-> added.handle]

YGNodeGetChild_wrap(s, parent_handle, index) ==
    LET parent == handle_table_get(s.node_table, parent_handle)
        child == YGNodeGetChild(s.nodes, parent, index)
        found == {i \in 0..(s.node_table.count - 1) : s.node_table.items[i + 1] = child}
        added == handle_table_add(s.node_table, child)
    IN  IF parent = NULL THEN [s |-> s, ret |-> -1]
        ELSE IF child = NULL THEN [s |-> s, ret |-> -1]
        ELSE IF found # {} THEN [s |-> s, ret |-> Min(found)]
        ELSE [s |-> [s EXCEPT !.node_table = added.table], ret |-> added.handle]

(* ------------------------------------------------------------ the caller *)
(* A run is a caller's sequence of wrapper calls on the two process-wide   *)
(* tables, one call per step. It starts from the tables as the program     *)
(* constructs them. The caller first replays one of the scripts below (a   *)
(* populated table needs more than COMPACT_MIN_FREE calls before a         *)
(* compaction can happen), then makes MaxSteps calls chosen freely.        *)
(*                                                                         *)
(* last   the call just made: [op, a, b, c, ret, calls]                    *)
(* issued node address -> the handle its constructor returned              *)
(* held   the node handles the caller holds: returned by an Add and since  *)
(*        neither passed to a FreeNode that resolved them nor scrubbed by  *)
(*        a FreeSubtree                                                    *)
(* memo   the last GetChild call and its result, forgotten at the next     *)
(*        structural mutation (InsertChild, RemoveChild, FreeNode,         *)
(*        FreeSubtree); repeat says that the call before it, with no       *)
(*        structural mutation in between, had the same arguments           *)
(* pending for each table, the ids passed to a FreeNode / FreeConfig that  *)
(*        resolved them and not returned by an Add since, oldest first,    *)
(*        forgotten when a compaction changes the table's storage          *)
(* before the two tables as they were when the call just made was entered  *)

Op(op, a, b, c) == [op |-> op, a |-> a, b |-> b, c |-> c]

Times(n, o) == [i \in 1..n |-> o]

\* op on the handles from, from - 1, ..., to.
Descending(op, from, to) == [i \in 1..(from - to + 1) |-> Op(op, from - i + 1, 0, 0)]

\* A root, its child and its grandchild, and one config.
ScriptTree ==
    Times(3, Op("CreateNode", 0, 0, 0))
    \o <<Op("InsertChild", 0, 1, 0), Op("InsertChild", 1, 2, 0), Op("CreateConfig", 0, 0, 0)>>

\* COMPACT_MIN_FREE + 2 handles, all but 0 and 1 freed from the top, one id
\* re-issued from the free list, then 1 freed: one more FreeNode compacts.
ScriptRelease(create, free) ==
    Times(COMPACT_MIN_FREE + 2, Op(create, 0, 0, 0))
    \o Descending(free, COMPACT_MIN_FREE + 1, 2)
    \o <<Op(create, 0, 0, 0), Op(free, 1, 0, 0)>>

\* Capacity 8 * MIN_CAPACITY, handle MIN_CAPACITY + 4 re-issued from the
\* free list and made the child of node 0, 4 * MIN_CAPACITY ids on the free
\* list: one more FreeNode shrinks the table.
ScriptShrink ==
    Times(4 * MIN_CAPACITY + 3, Op("CreateNode", 0, 0, 0))
    \o Descending("FreeNode", 4 * MIN_CAPACITY + 2, MIN_CAPACITY + 4)
    \o <<Op("CreateNode", 0, 0, 0)>>
    \o Descending("FreeNode", MIN_CAPACITY + 3, 2)
    \o <<Op("InsertChild", 0, MIN_CAPACITY + 4, 0)>>

\* ScriptRelease, the FreeNode that compacts, and two more nodes.
ScriptReissue ==
    ScriptRelease("CreateNode", "FreeNode")
    \o <<Op("FreeNode", 0, 0, 0), Op("CreateNode", 0, 0, 0), Op("CreateNode", 0, 0, 0)>>

\* ScriptShrink, the FreeNode that shrinks the table, and a GetChild that
\* reaches the child of node 0.
ScriptLazy ==
    ScriptShrink \o <<Op("FreeNode", 1, 0, 0), Op("GetChild", 0, 0, 0)>>

Scripts ==
    {<<>>, ScriptTree, ScriptRelease("CreateNode", "FreeNode"),
     ScriptRelease("CreateConfig", "FreeConfig"), ScriptShrink, ScriptReissue, ScriptLazy}

State == [node_table |-> node_table, config_table |-> config_table,
          nodes |-> nodes, configs |-> configs]

Scripted == script # <<>>

\* The call (op, a, b, c) may be made now.
MayCall(op, a, b, c) ==
    IF Scripted THEN Head(script) = Op(op, a, b, c) ELSE steps < MaxSteps

\* The handles a freely choosing caller passes: the sentinel, the lowest
\* ids, the table's high-water mark, its highest occupied slot, the first id
\* past the issued range and the first id past the storage.
Probes(table) ==
    {-1, 0, 1, table.high_water_mark, MaxOcc(table), table.count, table.capacity}

\* A caller that has made its MaxSteps free calls passes nothing more.
ArgA(table) ==
    IF Scripted THEN {Head(script).a} ELSE IF steps < MaxSteps THEN Probes(table) ELSE {}

ArgB(table) ==
    IF Scripted THEN {Head(script).b} ELSE IF steps < MaxSteps THEN Probes(table) ELSE {}

Indexes == IF Scripted THEN {Head(script).c} ELSE {0, 1}

RECURSIVE Lowest(_, _)
Lowest(S, k) ==
    IF S = {} \/ k = 0 THEN {} ELSE {Min(S)} \cup Lowest(S \ {Min(S)}, k - 1)

\* The addresses the foreign allocator may return for a new object: the
\* lowest free address, or (for a freely chosen call) the one after it, so
\* that a released address is handed out again.
NewAddresses(pool, used) ==
    Lowest(pool \ used, IF Scripted THEN 1 ELSE IF steps < MaxSteps THEN 2 ELSE 0)

Structural == {"InsertChild", "RemoveChild", "FreeNode", "FreeSubtree"}

\* The calls that construct a node and add it to the node table.
Adds == {"CreateNode", "CreateNodeWithConfig"}

\* The handles that resolve to a node of the subtree of root.
SubtreeHandles(table, hp, root) ==
    {h \in Occupied(table) : table.items[h + 1] \in Subtree(hp, root)}

\* pending after a call on one table: freed says the call is the table's
\* free wrapper, added that it added a pointer and returned ret.
PendingAfter(p, table, after, freed, handle, added, ret) ==
    IF freed /\ handle_table_get(table, handle) # NULL
    THEN IF after.capacity # table.capacity THEN <<>> ELSE Append(p, handle)
    ELSE IF added THEN Without(p, ret)
    ELSE p

NoMemo == [valid |-> FALSE, parent |-> 0, index |-> 0, ret |-> 0, repeat |-> FALSE]

Commit(op, a, b, c, r, calls) ==
    \E res \in {r} :
        /\ node_table' = res.s.node_table
        /\ config_table' = res.s.config_table
        /\ nodes' = res.s.nodes
        /\ configs' = res.s.configs
        /\ last' = [op |-> op, a |-> a, b |-> b, c |-> c, ret |-> res.ret, calls |-> calls]
        /\ issued' = [n \in DOMAIN res.s.nodes |->
                         IF n \in DOMAIN nodes THEN issued[n] ELSE res.ret]
        /\ held' = LET target == handle_table_get(node_table, a)
                   IN  IF op \in Adds \/ (op = "GetChild" /\ res.s.node_table # node_table)
                       THEN held \cup ({res.ret} \ {-1})
                       ELSE IF op = "FreeNode" /\ target # NULL THEN held \ {a}
                       ELSE IF op = "FreeSubtree" /\ target # NULL
                       THEN held \ SubtreeHandles(node_table, nodes, target)
                       ELSE held
        /\ memo' = IF op = "GetChild"
                   THEN [valid |-> TRUE, parent |-> a, index |-> b, ret |-> res.ret,
                         repeat |-> memo.valid /\ memo.parent = a /\ memo.index = b]
                   ELSE IF op \in Structural THEN NoMemo ELSE memo
        /\ pending' =
              [node |-> PendingAfter(pending.node, node_table, res.s.node_table,
                                     op = "FreeNode", a,
                                     op \in Adds \/ res.s.node_table # node_table, res.ret),
               config |-> PendingAfter(pending.config, config_table, res.s.config_table,
                                       op = "FreeConfig", a, op = "CreateConfig", res.ret)]
        /\ before' = [node_table |-> node_table, config_table |-> config_table]
        /\ script' = IF Scripted THEN Tail(script) ELSE script
        /\ steps' = IF Scripted THEN steps ELSE steps + 1
        /\ UNCHANGED <<simple_vars, settings, descriptors, tui_vars, term_vars>>

\* The terminal settings are the sets of the flags that are on.
Flags == {"ECHO", "CS8"}

Termios == SUBSET Flags

Devices == {"stdin", "/dev/tty"}

\* A terminal in its usual line mode, and no descriptor open on /dev/tty.
TerminalInit ==
    /\ settings = [d \in Devices |-> {"ECHO"}]
    /\ descriptors = {}

\* The statics of opentui_wrap.c before its first call.
TuiInit ==
    /\ orig_termios = {}
    /\ raw_mode_enabled = FALSE
    /\ tty_fd = -1
    /\ terminal_resized = 0
    /\ handler_installed = FALSE
    /\ poll = [pc |-> "idle", seen |-> FALSE]
    /\ tui_last = [op |-> "init", ret |-> 0, was_raw |-> FALSE]
    /\ enabled_with = [fd |-> -1, termios |-> {}]
    /\ unreported = FALSE

\* The statics of terminal.c before its first call.
TermInit ==
    /\ terminals = <<>>
    /\ global_term = NULL
    /\ atexit_registered = FALSE
    /\ exited = FALSE
    /\ term_held = {}

\* The statics of yoga_wrapper.c before its first call.
SimpleInit ==
    /\ node_handles = <<>>
    /\ config_handles = <<>>
    /\ node_handle_count = 0
    /\ config_handle_count = 0
    /\ aborted = FALSE

Init ==
    /\ node_table = EmptyTable
    /\ config_table = EmptyTable
    /\ nodes = <<>>
    /\ configs = <<>>
    /\ last = [op |-> "init", a |-> 0, b |-> 0, c |-> 0, ret |-> 0, calls |-> <<>>]
    /\ issued = <<>>
    /\ held = {}
    /\ memo = NoMemo
    /\ pending = [node |-> <<>>, config |-> <<>>]
    /\ before = [node_table |-> EmptyTable, config_table |-> EmptyTable]
    /\ script \in Scripts
    /\ steps = 0
    /\ SimpleInit
    /\ TerminalInit
    /\ TuiInit
    /\ TermInit

CreateNode ==
    \E ptr \in NewAddresses(NodePtrs, DOMAIN nodes) :
        /\ MayCall("CreateNode", 0, 0, 0)
        /\ Commit("CreateNode", 0, 0, 0, YGNodeNew_wrap(State, ptr), <<>>)

CreateNodeWithConfig ==
    \E c \in ArgA(config_table), ptr \in NewAddresses(NodePtrs, DOMAIN nodes) :
        /\ MayCall("CreateNodeWithConfig", c, 0, 0)
        /\ Commit("CreateNodeWithConfig", c, 0, 0, YGNodeNewWithConfig_wrap(State, c, ptr), <<>>)

FreeNode ==
    \E h \in ArgA(node_table) :
        /\ MayCall("FreeNode", h, 0, 0)
        /\ Commit("FreeNode", h, 0, 0, YGNodeFree_wrap(State, h), <<>>)

FreeSubtree ==
    \E h \in ArgA(node_table) :
        /\ MayCall("FreeSubtree", h, 0, 0)
        /\ \E r \in {YGNodeFreeRecursive_wrap(State, h)} :
              Commit("FreeSubtree", h, 0, 0, r, r.calls)

CalculateLayout ==
    \E h \in ArgA(node_table) :
        /\ MayCall("CalculateLayout", h, 0, 0)
        /\ Commit("CalculateLayout", h, 0, 0, YGNodeCalculateLayout_wrap(State, h, 1), <<>>)

LayoutGet ==
    \E h \in ArgA(node_table) :
        /\ MayCall("LayoutGet", h, 0, 0)
        /\ Commit("LayoutGet", h, 0, 0, YGNodeLayoutGet_wrap(State, h), <<>>)

StyleSet ==
    \E h \in ArgA(node_table) :
        /\ MayCall("StyleSet", h, 0, 0)
        /\ Commit("StyleSet", h, 0, 0, YGNodeStyleSet_wrap(State, h, 1), <<>>)

\* When both handles resolve the call reaches the library, which aborts the
\* process unless CanInsertChild holds.
InsertChild ==
    \E p \in ArgA(node_table), ch \in ArgB(node_table), i \in Indexes :
        /\ MayCall("InsertChild", p, ch, i)
        /\ LET parent == handle_table_get(node_table, p)
               child == handle_table_get(node_table, ch)
           IN  (parent # NULL /\ child # NULL) => CanInsertChild(nodes, parent, child, i)
        /\ Commit("InsertChild", p, ch, i, YGNodeInsertChild_wrap(State, p, ch, i), <<>>)

RemoveChild ==
    \E p \in ArgA(node_table), ch \in ArgB(node_table) :
        /\ MayCall("RemoveChild", p, ch, 0)
        /\ Commit("RemoveChild", p, ch, 0, YGNodeRemoveChild_wrap(State, p, ch), <<>>)

GetChildCount ==
    \E h \in ArgA(node_table) :
        /\ MayCall("GetChildCount", h, 0, 0)
        /\ Commit("GetChildCount", h, 0, 0, YGNodeGetChildCount_wrap(State, h), <<>>)

GetChild ==
    \E p \in ArgA(node_table), i \in (IF Scripted THEN {Head(script).b} ELSE {0, 1}) :
        /\ MayCall("GetChild", p, i, 0)
        /\ Commit("GetChild", p, i, 0, YGNodeGetChild_wrap(State, p, i), <<>>)

CreateConfig ==
    \E ptr \in NewAddresses(ConfigPtrs, DOMAIN configs) :
        /\ MayCall("CreateConfig", 0, 0, 0)
        /\ Commit("CreateConfig", 0, 0, 0, YGConfigNew_wrap(State, ptr), <<>>)

FreeConfig ==
    \E h \in ArgA(config_table) :
        /\ MayCall("FreeConfig", h, 0, 0)
        /\ Commit("FreeConfig", h, 0, 0, YGConfigFree_wrap(State, h), <<>>)

ConfigSetUseWebDefaults ==
    \E h \in ArgA(config_table), enabled \in (IF Scripted THEN {Head(script).b} ELSE {1}) :
        /\ MayCall("ConfigSetUseWebDefaults", h, enabled, 0)
        /\ Commit("ConfigSetUseWebDefaults", h, enabled, 0,
                  YGConfigSetUseWebDefaults_wrap(State, h, enabled), <<>>)

Next ==
    \/ CreateNode
    \/ CreateNodeWithConfig
    \/ FreeNode
    \/ FreeSubtree
    \/ CalculateLayout
    \/ LayoutGet
    \/ StyleSet
    \/ InsertChild
    \/ RemoveChild
    \/ GetChildCount
    \/ GetChild
    \/ CreateConfig
    \/ FreeConfig
    \/ ConfigSetUseWebDefaults

Spec == Init /\ [][Next]_vars

(* ----------------------------------------------------- allocation failure *)
(* In Spec every realloc succeeds. Here a constructor may be called when    *)
(* the foreign constructor gives NULL or when a realloc of the growth step  *)
(* of handle_table_add fails. new_items is what realloc(table->items) does: *)
(* "NULL" (fails, block untouched), "same" (grown in place) or "moved" (new *)
(* block, old block released); new_free_list is "NULL" or "ok".             *)

ReallocItems == {"NULL", "same", "moved"}

ReallocFreeList == {"NULL", "ok"}

\* handle_table_add returns -1.
AddFails(table, ptr, new_items, new_free_list) ==
    \/ ptr = NULL
    \/ /\ Len(table.free_list) = 0
       /\ table.count >= table.capacity
       /\ new_items = "NULL" \/ new_free_list = "NULL"

\* What the slots read as once table->items points to a released block: the
\* old contents while the allocator has not reused the block, or whatever was
\* written over them, taken here as all-NULL.
FreedReads(table) == {table.items, Zeros(Len(table.items))}

\* The realloc outcomes that can happen on the table: realloc(NULL, n) cannot
\* return its argument.
CanRealloc(table, new_items) == table.items = <<>> => new_items # "same"

\* handle_table_add with the given outcomes. When the items block moved and
\* the free-list realloc fails, the rollback releases the new block while
\* table->items still points to the old one, which realloc released: reads
\* is what the slots read as from then on.
handle_table_add_alloc(table, ptr, new_items, new_free_list, reads) ==
    IF ~AddFails(table, ptr, new_items, new_free_list) THEN handle_table_add(table, ptr)
    ELSE IF ptr # NULL /\ new_items = "moved" /\ table.items # <<>>
    THEN [table |-> [table EXCEPT !.items = reads], handle |-> -1]
    ELSE [table |-> table, handle |-> -1]

\* ptr is what YGNodeNew returned: NULL, or a node that stays allocated
\* whether or not it gets a handle.
YGNodeNew_wrap_alloc(s, ptr, new_items, new_free_list, reads) ==
    LET added == handle_table_add_alloc(s.node_table, ptr, new_items, new_free_list, reads)
    IN  [s |-> [s EXCEPT !.nodes = IF ptr # NULL THEN YGNodeNew(@, ptr) ELSE @,
                         !.node_table = added.table],
         ret |-> added.handle]

YGNodeNewWithConfig_wrap_alloc(s, config_handle, ptr, new_items, new_free_list, reads) ==
    LET config == handle_table_get(s.config_table, config_handle)
        added == handle_table_add_alloc(s.node_table, ptr, new_items, new_free_list, reads)
    IN  [s |-> [s EXCEPT !.nodes = IF ptr = NULL THEN @
                                   ELSE IF config # NULL
                                   THEN YGNodeNewWithConfig(@, ptr, config)
                                   ELSE YGNodeNew(@, ptr),
                         !.node_table = added.table],
         ret |-> added.handle]

YGConfigNew_wrap_alloc(s, ptr, new_items, new_free_list, reads) ==
    LET added == handle_table_add_alloc(s.config_table, ptr, new_items, new_free_list, reads)
    IN  [s |-> [s EXCEPT !.configs = IF ptr # NULL THEN YGConfigNew(@, ptr) ELSE @,
                         !.config_table = added.table],
         ret |-> added.handle]

\* MIN_CAPACITY handles: the next Add has to grow the storage.
ScriptFull(create) == Times(MIN_CAPACITY, Op(create, 0, 0, 0))

AllocScripts == {<<>>, ScriptTree, ScriptFull("CreateNode"), ScriptFull("CreateConfig")}

InitAlloc ==
    /\ node_table = EmptyTable
    /\ config_table = EmptyTable
    /\ nodes = <<>>
    /\ configs = <<>>
    /\ last = [op |-> "init", a |-> 0, b |-> 0, c |-> 0, ret |-> 0, calls |-> <<>>]
    /\ issued = <<>>
    /\ held = {}
    /\ memo = NoMemo
    /\ pending = [node |-> <<>>, config |-> <<>>]
    /\ before = [node_table |-> EmptyTable, config_table |-> EmptyTable]
    /\ script \in AllocScripts
    /\ steps = 0
    /\ SimpleInit
    /\ TerminalInit
    /\ TuiInit
    /\ TermInit

\* A freely chosen CreateNode that returns -1.
CreateNodeFailed ==
    \E ptr \in NewAddresses(NodePtrs, DOMAIN nodes) \cup {NULL},
       new_items \in ReallocItems, new_free_list \in ReallocFreeList,
       reads \in FreedReads(node_table) :
        /\ ~Scripted
        /\ MayCall("CreateNode", 0, 0, 0)
        /\ CanRealloc(node_table, new_items)
        /\ AddFails(node_table, ptr, new_items, new_free_list)
        /\ Commit("CreateNode", 0, 0, 0,
                  YGNodeNew_wrap_alloc(State, ptr, new_items, new_free_list, reads), <<>>)

CreateNodeWithConfigFailed ==
    \E c \in ArgA(config_table), ptr \in NewAddresses(NodePtrs, DOMAIN nodes) \cup {NULL},
       new_items \in ReallocItems, new_free_list \in ReallocFreeList,
       reads \in FreedReads(node_table) :
        /\ ~Scripted
        /\ MayCall("CreateNodeWithConfig", c, 0, 0)
        /\ CanRealloc(node_table, new_items)
        /\ AddFails(node_table, ptr, new_items, new_free_list)
        /\ Commit("CreateNodeWithConfig", c, 0, 0,
                  YGNodeNewWithConfig_wrap_alloc(State, c, ptr, new_items, new_free_list, reads),
                  <<>>)

CreateConfigFailed ==
    \E ptr \in NewAddresses(ConfigPtrs, DOMAIN configs) \cup {NULL},
       new_items \in ReallocItems, new_free_list \in ReallocFreeList,
       reads \in FreedReads(config_table) :
        /\ ~Scripted
        /\ MayCall("CreateConfig", 0, 0, 0)
        /\ CanRealloc(config_table, new_items)
        /\ AddFails(config_table, ptr, new_items, new_free_list)
        /\ Commit("CreateConfig", 0, 0, 0,
                  YGConfigNew_wrap_alloc(State, ptr, new_items, new_free_list, reads), <<>>)

NextAlloc ==
    \/ Next
    \/ CreateNodeFailed
    \/ CreateNodeWithConfigFailed
    \/ CreateConfigFailed

SpecAlloc == InitAlloc /\ [][NextAlloc]_vars

(* ------------------------------------------- the simple wrapper's calls *)
(* src/onebit-yoga/src/ffi/yoga_wrapper.c: handles are array indices that  *)
(* are never issued twice; a released slot is set to NULL.                 *)

\* The Yoga tables and ghosts of yoga_wrap.c before its first call, with
\* no call to it to come.
YogaIdle ==
    /\ node_table = EmptyTable
    /\ config_table = EmptyTable
    /\ issued = <<>>
    /\ held = {}
    /\ memo = NoMemo
    /\ pending = [node |-> <<>>, config |-> <<>>]
    /\ before = [node_table |-> EmptyTable, config_table |-> EmptyTable]
    /\ script = <<>>
    /\ steps = 0

YogaUnused == UNCHANGED <<node_table, config_table, issued, held, memo, pending, before,
                          script, steps>>

TerminalUnused == UNCHANGED <<settings, descriptors, tui_vars, term_vars>>

ensure_node_capacity(handles, index) ==
    IF index >= Len(handles)
    THEN handles \o Zeros((index + 1) * 2 - Len(handles))
    ELSE handles

ensure_config_capacity(handles, index) ==
    IF index >= Len(handles)
    THEN handles \o Zeros((index + 1) * 2 - Len(handles))
    ELSE handles

\* handle >= 0 && handle < capacity && handles[handle]
SlotLive(handles, handle) ==
    handle >= 0 /\ handle < Len(handles) /\ handles[handle + 1] # NULL

\* The test of yoga_node_new_with_config_wrapper that chooses between
\* YGNodeNewWithConfig(config_handles[config_handle]) and YGNodeNew().
config_in_range(handles, config_handle) ==
    config_handle >= 0 /\ config_handle < Len(handles)

\* The handles a caller of the simple wrapper passes.
SimpleProbes(handles) == -1..Len(handles)

SimpleCall(op, a, ret, calls) ==
    [op |-> op, a |-> a, b |-> 0, c |-> 0, ret |-> ret, calls |-> calls]

yoga_config_new_wrapper ==
    \E ptr \in Lowest(ConfigPtrs \ DOMAIN configs, 1) :
        LET handle == config_handle_count
        IN  /\ ~aborted
            /\ config_handle_count < MaxSimple
            /\ config_handle_count' = config_handle_count + 1
            /\ config_handles' =
                  [ensure_config_capacity(config_handles, handle) EXCEPT ![handle + 1] = ptr]
            /\ configs' = YGConfigNew(configs, ptr)
            /\ last' = SimpleCall("yoga_config_new_wrapper", 0, handle, <<>>)
            /\ UNCHANGED <<nodes, node_handles, node_handle_count, aborted>>
            /\ YogaUnused
            /\ TerminalUnused

yoga_config_free_wrapper ==
    \E handle \in SimpleProbes(config_handles) :
        /\ ~aborted
        /\ IF SlotLive(config_handles, handle)
           THEN /\ configs' = YGConfigFree(configs, config_handles[handle + 1])
                /\ config_handles' = [config_handles EXCEPT ![handle + 1] = NULL]
           ELSE UNCHANGED <<configs, config_handles>>
        /\ last' = SimpleCall("yoga_config_free_wrapper", handle, 0, <<>>)
        /\ UNCHANGED <<nodes, node_handles, node_handle_count, config_handle_count, aborted>>
        /\ YogaUnused
        /\ TerminalUnused

yoga_node_new_wrapper ==
    \E ptr \in Lowest(NodePtrs \ DOMAIN nodes, 1) :
        LET handle == node_handle_count
        IN  /\ ~aborted
            /\ node_handle_count < MaxSimple
            /\ node_handle_count' = node_handle_count + 1
            /\ node_handles' =
                  [ensure_node_capacity(node_handles, handle) EXCEPT ![handle + 1] = ptr]
            /\ nodes' = YGNodeNew(nodes, ptr)
            /\ last' = SimpleCall("yoga_node_new_wrapper", 0, handle,
                                  <<Call("YGNodeNew", NULL, configs)>>)
            /\ UNCHANGED <<configs, config_handles, config_handle_count, aborted>>
            /\ YogaUnused
            /\ TerminalUnused

\* YGNodeNewWithConfig on a null config is outside the library's contract:
\* the library stops the process, or it builds a node that has no config.
yoga_node_new_with_config_wrapper ==
    \E config_handle \in SimpleProbes(config_handles),
       ptr \in Lowest(NodePtrs \ DOMAIN nodes, 1),
       stops \in BOOLEAN :
        LET handle == node_handle_count
            grown == ensure_node_capacity(node_handles, handle)
            with_config == config_in_range(config_handles, config_handle)
            passed == IF with_config THEN config_handles[config_handle + 1] ELSE NULL
        IN  /\ ~aborted
            /\ node_handle_count < MaxSimple
            /\ node_handle_count' = node_handle_count + 1
            /\ stops => (with_config /\ passed = NULL)
            /\ IF stops
               THEN /\ aborted' = TRUE
                    /\ node_handles' = grown
                    /\ nodes' = nodes
               ELSE /\ aborted' = FALSE
                    /\ node_handles' = [grown EXCEPT ![handle + 1] = ptr]
                    /\ nodes' = IF with_config
                                THEN YGNodeNewWithConfig(nodes, ptr, passed)
                                ELSE YGNodeNew(nodes, ptr)
            /\ last' = SimpleCall("yoga_node_new_with_config_wrapper", config_handle, handle,
                                  IF with_config
                                  THEN <<Call("YGNodeNewWithConfig", passed, configs)>>
                                  ELSE <<Call("YGNodeNew", NULL, configs)>>)
            /\ UNCHANGED <<configs, config_handles, config_handle_count>>
            /\ YogaUnused
            /\ TerminalUnused

yoga_node_free_wrapper ==
    \E handle \in SimpleProbes(node_handles) :
        /\ ~aborted
        /\ IF SlotLive(node_handles, handle)
           THEN /\ nodes' = YGNodeFree(nodes, node_handles[handle + 1])
                /\ node_handles' = [node_handles EXCEPT ![handle + 1] = NULL]
           ELSE UNCHANGED <<nodes, node_handles>>
        /\ last' = SimpleCall("yoga_node_free_wrapper", handle, 0, <<>>)
        /\ UNCHANGED <<configs, config_handles, node_handle_count, config_handle_count, aborted>>
        /\ YogaUnused
        /\ TerminalUnused

InitSimple ==
    /\ YogaIdle
    /\ nodes = <<>>
    /\ configs = <<>>
    /\ last = [op |-> "init", a |-> 0, b |-> 0, c |-> 0, ret |-> 0, calls |-> <<>>]
    /\ SimpleInit
    /\ TerminalInit
    /\ TuiInit
    /\ TermInit

NextSimple ==
    \/ yoga_config_new_wrapper
    \/ yoga_config_free_wrapper
    \/ yoga_node_new_wrapper
    \/ yoga_node_new_with_config_wrapper
    \/ yoga_node_free_wrapper

SpecSimple == InitSimple /\ [][NextSimple]_vars

(* ------------------------------------------------- raw mode and resizing *)
(* src/onebit-tui/src/ffi/opentui_wrap.c.  The raw-mode functions work on  *)
(* the record [orig_termios, raw_mode_enabled, tty_fd, settings,           *)
(* descriptors]; the outcome of each terminal call they make is an         *)
(* argument.                                                               *)

Raw(termios) == (termios \ {"ECHO"}) \cup {"CS8"}

\* The terminal device a descriptor refers to.
Device(fd) == IF fd = STDIN_FILENO THEN "stdin" ELSE "/dev/tty"

\* open returns the lowest descriptor that is not in use; 0, 1 and 2 are the
\* standard streams.
NewDescriptor(used) == Min({fd \in 3..(3 + Cardinality(used)) : fd \notin used})

TuiState ==
    [orig_termios |-> orig_termios, raw_mode_enabled |-> raw_mode_enabled, tty_fd |-> tty_fd,
     settings |-> settings, descriptors |-> descriptors]

\* if (tty_fd != -1) { close(tty_fd); tty_fd = -1; }
close_tty_fd(s) ==
    IF s.tty_fd # -1
    THEN [s EXCEPT !.descriptors = @ \ {s.tty_fd}, !.tty_fd = -1]
    ELSE s

\* A slip that saves and switches again while raw mode is on.
setTerminalRawMode_unguarded(s, isatty, open_ok, get_ok, set_ok, garbage) ==
    LET fd == IF isatty THEN STDIN_FILENO ELSE NewDescriptor(s.descriptors)
        opened == IF isatty THEN s
                  ELSE [s EXCEPT !.tty_fd = fd, !.descriptors = @ \cup {fd}]
        saved == [opened EXCEPT !.orig_termios = opened.settings[Device(fd)]]
    IN  IF ~isatty /\ ~open_ok THEN [s |-> [s EXCEPT !.tty_fd = -1], ret |-> -1]
        ELSE IF ~get_ok
        THEN [s |-> close_tty_fd([opened EXCEPT !.orig_termios = garbage]), ret |-> -1]
        ELSE IF ~set_ok THEN [s |-> close_tty_fd(saved), ret |-> -1]
        ELSE [s |-> [saved EXCEPT !.settings[Device(fd)] = Raw(saved.orig_termios),
                                  !.raw_mode_enabled = TRUE],
              ret |-> 0]

\* setTerminalRawMode; isatty, open_ok, get_ok and set_ok say whether
\* isatty(STDIN_FILENO), open("/dev/tty"), tcgetattr and tcsetattr succeed,
\* garbage is what a failed tcgetattr leaves in orig_termios.
setTerminalRawMode(s, isatty, open_ok, get_ok, set_ok, garbage) ==
    IF s.raw_mode_enabled THEN [s |-> s, ret |-> 0]
    ELSE LET fd == IF isatty THEN STDIN_FILENO ELSE NewDescriptor(s.descriptors)
             opened == IF isatty THEN s
                       ELSE [s EXCEPT !.tty_fd = fd, !.descriptors = @ \cup {fd}]
             saved == [opened EXCEPT !.orig_termios = opened.settings[Device(fd)]]
         IN  IF ~isatty /\ ~open_ok THEN [s |-> [s EXCEPT !.tty_fd = -1], ret |-> -1]
             ELSE IF ~get_ok
             THEN [s |-> close_tty_fd([opened EXCEPT !.orig_termios = garbage]), ret |-> -1]
             ELSE IF ~set_ok THEN [s |-> close_tty_fd(saved), ret |-> -1]
             ELSE [s |-> [saved EXCEPT !.settings[Device(fd)] = Raw(saved.orig_termios),
                                       !.raw_mode_enabled = TRUE],
                   ret |-> 0]

\* restoreTerminalMode; set_ok says whether tcsetattr succeeds.
restoreTerminalMode(s, set_ok) ==
    IF ~s.raw_mode_enabled THEN [s |-> s, ret |-> 0]
    ELSE LET fd == IF s.tty_fd # -1 THEN s.tty_fd ELSE STDIN_FILENO
         IN  IF ~set_ok THEN [s |-> s, ret |-> -1]
             ELSE [s |-> [close_tty_fd([s EXCEPT !.settings[Device(fd)] = s.orig_termios])
                            EXCEPT !.raw_mode_enabled = FALSE],
                   ret |-> 0]

\* A slip that clears the flag whatever the test found.
wasTerminalResized_clear_always(flag, seen) == 0

\* The second half of wasTerminalResized: the flag after the call, when its
\* test found seen.
wasTerminalResized_clear(flag, seen) == IF seen THEN 0 ELSE flag

TuiCommit(op, res) ==
    /\ orig_termios' = res.s.orig_termios
    /\ raw_mode_enabled' = res.s.raw_mode_enabled
    /\ tty_fd' = res.s.tty_fd
    /\ settings' = res.s.settings
    /\ descriptors' = res.s.descriptors
    /\ tui_last' = [op |-> op, ret |-> res.ret, was_raw |-> raw_mode_enabled]

OnlyTui == UNCHANGED <<yoga_vars, simple_vars, term_vars>>

\* Another process on the terminal changes its settings.
Stty ==
    \E d \in Devices, termios \in Termios :
        /\ settings' = [settings EXCEPT ![d] = termios]
        /\ tui_last' = [op |-> "stty", ret |-> 0, was_raw |-> raw_mode_enabled]
        /\ UNCHANGED <<descriptors, orig_termios, raw_mode_enabled, tty_fd, terminal_resized,
                       handler_installed, poll, enabled_with, unreported>>
        /\ OnlyTui

CallSetTerminalRawMode ==
    \E isatty \in BOOLEAN, open_ok \in BOOLEAN, get_ok \in BOOLEAN, set_ok \in BOOLEAN,
       garbage \in Termios :
        LET res == setTerminalRawMode(TuiState, isatty, open_ok, get_ok, set_ok, garbage)
            device == IF isatty THEN "stdin" ELSE "/dev/tty"
        IN  /\ poll.pc = "idle"
            /\ open_ok => Cardinality(descriptors) < MaxDescriptors
            /\ TuiCommit("setTerminalRawMode", res)
            /\ enabled_with' = IF ~raw_mode_enabled /\ res.s.raw_mode_enabled
                               THEN [fd |-> IF isatty THEN STDIN_FILENO ELSE res.s.tty_fd,
                                     termios |-> settings[device]]
                               ELSE enabled_with
            /\ UNCHANGED <<terminal_resized, handler_installed, poll, unreported>>
            /\ OnlyTui

CallRestoreTerminalMode ==
    \E set_ok \in BOOLEAN :
        /\ poll.pc = "idle"
        /\ TuiCommit("restoreTerminalMode", restoreTerminalMode(TuiState, set_ok))
        /\ UNCHANGED <<terminal_resized, handler_installed, poll, enabled_with, unreported>>
        /\ OnlyTui

\* installResizeHandler; ok says whether sigaction succeeds.
installResizeHandler ==
    \E ok \in BOOLEAN :
        /\ poll.pc = "idle"
        /\ handler_installed' = (handler_installed \/ ok)
        /\ tui_last' = [op |-> "installResizeHandler", ret |-> IF ok THEN 0 ELSE -1,
                        was_raw |-> raw_mode_enabled]
        /\ UNCHANGED <<settings, descriptors, orig_termios, raw_mode_enabled, tty_fd,
                       terminal_resized, poll, enabled_with, unreported>>
        /\ OnlyTui

\* A SIGWINCH is delivered: the handler runs between any two steps of the
\* program.
handle_winch ==
    /\ handler_installed
    /\ terminal_resized' = 1
    /\ unreported' = TRUE
    /\ UNCHANGED <<settings, descriptors, orig_termios, raw_mode_enabled, tty_fd,
                   handler_installed, poll, tui_last, enabled_with>>
    /\ OnlyTui

\* wasTerminalResized, first step: if (terminal_resized)
wasTerminalResized_test ==
    /\ poll.pc = "idle"
    /\ poll' = [pc |-> "tested", seen |-> terminal_resized # 0]
    /\ UNCHANGED <<settings, descriptors, orig_termios, raw_mode_enabled, tty_fd,
                   terminal_resized, handler_installed, tui_last, enabled_with, unreported>>
    /\ OnlyTui

\* wasTerminalResized, second step: terminal_resized = 0; return true; or
\* return false.
wasTerminalResized_return ==
    /\ poll.pc = "tested"
    /\ terminal_resized' = wasTerminalResized_clear(terminal_resized, poll.seen)
    /\ poll' = [pc |-> "idle", seen |-> FALSE]
    /\ tui_last' = [op |-> "wasTerminalResized", ret |-> IF poll.seen THEN 1 ELSE 0,
                    was_raw |-> raw_mode_enabled]
    /\ unreported' = IF poll.seen THEN FALSE ELSE unreported
    /\ UNCHANGED <<settings, descriptors, orig_termios, raw_mode_enabled, tty_fd,
                   handler_installed, enabled_with>>
    /\ OnlyTui

InitTui ==
    /\ YogaIdle
    /\ nodes = <<>>
    /\ configs = <<>>
    /\ last = [op |-> "init", a |-> 0, b |-> 0, c |-> 0, ret |-> 0, calls |-> <<>>]
    /\ SimpleInit
    /\ TerminalInit
    /\ TuiInit
    /\ TermInit

NextTui ==
    \/ Stty
    \/ CallSetTerminalRawMode
    \/ CallRestoreTerminalMode
    \/ installResizeHandler
    \/ handle_winch
    \/ wasTerminalResized_test
    \/ wasTerminalResized_return

SpecTui == InitTui /\ [][NextTui]_vars

\* The caller polls wasTerminalResized from its event loop: a call that can
\* start does start, and a call that was started returns.
SpecTuiFair ==
    /\ SpecTui
    /\ WF_vars(wasTerminalResized_test)
    /\ WF_vars(wasTerminalResized_return)

(* ------------------------------------------------- the Terminal objects *)
(* src/onebit-tui/lib/terminal.c: zig_terminal_init, zig_terminal_deinit   *)
(* and the restore_terminal hook that runs when the process exits.         *)

TermPtrs == 1..MaxTerminals

OnlyTerm == UNCHANGED <<yoga_vars, simple_vars, descriptors, tui_vars>>

\* free(term)
free_term(heap, term) == [t \in DOMAIN heap \ {term} |-> heap[t]]

\* zig_terminal_init; term is what malloc returns (NULL when it fails),
\* get_ok and set_ok say whether tcgetattr and tcsetattr succeed.
zig_terminal_init ==
    \E term \in (TermPtrs \ DOMAIN terminals) \cup {NULL}, get_ok \in BOOLEAN,
       set_ok \in BOOLEAN :
        /\ ~exited
        /\ IF term = NULL \/ ~get_ok
           THEN UNCHANGED <<terminals, global_term, atexit_registered, term_held, settings>>
           ELSE /\ global_term' = term
                /\ atexit_registered' = TRUE
                /\ IF ~set_ok
                   THEN UNCHANGED <<terminals, term_held, settings>>
                   ELSE /\ terminals' =
                             [t \in DOMAIN terminals \cup {term} |->
                                 IF t = term
                                 THEN [orig_termios |-> settings["stdin"], raw_mode |-> 1]
                                 ELSE terminals[t]]
                        /\ settings' = [settings EXCEPT !["stdin"] = Raw(@)]
                        /\ term_held' = term_held \cup {term}
        /\ UNCHANGED exited
        /\ OnlyTerm

\* zig_terminal_deinit(term_ptr) with NULL or a pointer zig_terminal_init
\* returned and that was not given back yet; set_ok says whether tcsetattr
\* succeeds.
zig_terminal_deinit ==
    \E term \in term_held \cup {NULL}, set_ok \in BOOLEAN :
        /\ ~exited
        /\ IF term = NULL
           THEN UNCHANGED <<terminals, global_term, term_held, settings>>
           ELSE /\ settings' = IF terminals[term].raw_mode # 0 /\ set_ok
                               THEN [settings EXCEPT !["stdin"] = terminals[term].orig_termios]
                               ELSE settings
                /\ global_term' = IF global_term = term THEN NULL ELSE global_term
                /\ terminals' = free_term(terminals, term)
                /\ term_held' = term_held \ {term}
        /\ UNCHANGED <<atexit_registered, exited>>
        /\ OnlyTerm

\* The process exits and the registered hook restore_terminal runs.  When
\* global_term points to released memory, raw_mode and orig_termios are
\* whatever that memory holds now (stale_raw_mode, stale_termios).
restore_terminal ==
    \E set_ok \in BOOLEAN, stale_raw_mode \in {0, 1}, stale_termios \in Termios :
        LET allocated == global_term \in DOMAIN terminals
            raw_mode == IF allocated THEN terminals[global_term].raw_mode ELSE stale_raw_mode
            termios == IF allocated THEN terminals[global_term].orig_termios
                       ELSE stale_termios
        IN  /\ ~exited
            /\ exited' = TRUE
            /\ settings' = IF atexit_registered /\ global_term # NULL /\ raw_mode # 0 /\ set_ok
                           THEN [settings EXCEPT !["stdin"] = termios]
                           ELSE settings
            /\ UNCHANGED <<terminals, global_term, atexit_registered, term_held>>
            /\ OnlyTerm

InitTerm ==
    /\ YogaIdle
    /\ nodes = <<>>
    /\ configs = <<>>
    /\ last = [op |-> "init", a |-> 0, b |-> 0, c |-> 0, ret |-> 0, calls |-> <<>>]
    /\ SimpleInit
    /\ TerminalInit
    /\ TuiInit
    /\ TermInit

NextTerm ==
    \/ Stty
    \/ zig_terminal_init
    \/ zig_terminal_deinit
    \/ restore_terminal

SpecTerm == InitTerm /\ [][NextTerm]_vars

(* ----------------------------------------------------------------- claims *)

\* C1: once Add(p) returned h, Get(h) returns p in every later state until
\* Remove(h) is called or a FreeSubtree scrubs h. Stated per step: a handle
\* that resolves to p before a call resolves to p after it, unless the call
\* is FreeNode(h) or a FreeSubtree whose subtree contains p.
C1_GetStableUntilRemoved ==
    [][\A h \in Occupied(node_table) :
          LET p == handle_table_get(node_table, h)
              root == handle_table_get(node_table, last'.a)
          IN  p # NULL =>
                \/ handle_table_get(node_table', h) = p
                \/ last'.op = "FreeNode" /\ last'.a = h
                \/ last'.op = "FreeSubtree" /\ root # NULL /\ p \in Subtree(nodes, root)
      ]_vars

\* The table between handle_table_remove and the compaction test of a free
\* wrapper called with handle.
AfterRemove(table, handle) == handle_table_remove(table, handle)

\* Get(h) is the same after the compaction as immediately before it, for
\* every slot occupied immediately before it.
CompactionKeeps(table, handle, after) ==
    (handle_table_get(table, handle) # NULL /\ compact_due(AfterRemove(table, handle)))
        => \A h \in Occupied(AfterRemove(table, handle)) :
              handle_table_get(after, h) = handle_table_get(AfterRemove(table, handle), h)

\* C2: a compaction run from FreeNode or FreeConfig leaves Get(h) unchanged
\* for every handle h whose slot was occupied immediately before it ran.
C2_CompactionKeepsLiveHandles ==
    [][/\ last'.op = "FreeNode" => CompactionKeeps(node_table, last'.a, node_table')
       /\ last'.op = "FreeConfig" => CompactionKeeps(config_table, last'.a, config_table')
      ]_vars

\* C3: a successful Add (CreateNode, CreateNodeWithConfig, a GetChild that
\* adds) returns an id whose slot was empty immediately before the call, and
\* an id is handed out again only after it was removed: the id returned is
\* not one the caller still holds.
C3_AddReturnsUnusedId ==
    [][(last'.op \in Adds \/ (last'.op = "GetChild" /\ node_table' # node_table))
          => /\ last'.ret >= 0
             /\ last'.ret \notin Occupied(node_table)
             /\ last'.ret \notin held
      ]_vars

\* C4: FreeSubtree(root) on a valid root handle makes Get absent for the
\* root's handle and for the handle of every descendant of root that had one.
C4_FreeSubtreeInvalidatesSubtree ==
    [][LET root == handle_table_get(node_table, last'.a)
       IN  (last'.op = "FreeSubtree" /\ root # NULL)
             => \A h \in SubtreeHandles(node_table, nodes, root) :
                   handle_table_get(node_table', h) = NULL
      ]_vars

\* The nodes a FreeSubtree call walked.
Walked == {last.calls[i][2] : i \in {j \in 1..Len(last.calls) : last.calls[j][1] = "YGNodeGetChildCount"}}

\* C4 witness: a FreeSubtree walked a root, a child and a grandchild, and
\* none of the three handles issued resolves any more.
C4_Witness ==
    /\ last.op = "FreeSubtree"
    /\ Cardinality(Walked) >= 3
    /\ node_table.count >= 3
    /\ Occupied(node_table) = {}

\* C5: FreeSubtree(root) creates no handle and touches no handle outside the
\* subtree: the occupied slots after the call are those before it minus the
\* handles of root and its descendants, and they hold the same pointers.
C5_FreeSubtreeFrame ==
    [][LET root == handle_table_get(node_table, last'.a)
       IN  (last'.op = "FreeSubtree" /\ root # NULL)
             => /\ Occupied(node_table') =
                      Occupied(node_table) \ SubtreeHandles(node_table, nodes, root)
                /\ \A h \in Occupied(node_table') :
                      handle_table_get(node_table', h) = handle_table_get(node_table, h)
      ]_vars

\* C5 witness: a FreeSubtree of a node with at least one child left the
\* handle of a node outside the subtree in place.
C5_Witness ==
    /\ last.op = "FreeSubtree"
    /\ Cardinality(Walked) >= 2
    /\ Occupied(node_table) # {}
    /\ \A h \in Occupied(node_table) : node_table.items[h + 1] \in DOMAIN nodes

\* C6: in FreeSubtree the native recursive free is the last foreign call:
\* every child-count and child query of the scrub walk is made before it, on
\* a node that is still allocated, and when it is made no slot of the table
\* holds a node of the walked subtree.
C6_NativeFreeAfterScrub ==
    (last.op = "FreeSubtree" /\ last.calls # <<>>) =>
        /\ last.calls[Len(last.calls)][1] = "YGNodeFreeRecursive"
        /\ \A i \in 1..(Len(last.calls) - 1) :
              /\ last.calls[i][1] \in {"YGNodeGetChildCount", "YGNodeGetChild"}
              /\ last.calls[i][3]
        /\ \A h \in Occupied(node_table) : node_table.items[h + 1] \notin Walked

\* C6 witness: a FreeSubtree that walked a root, a child and a grandchild.
C6_Witness ==
    /\ last.op = "FreeSubtree"
    /\ Cardinality(Walked) >= 3
    /\ Len(last.calls) >= 6

\* C7: GetChild(parent, i) called again with no structural mutation since
\* the previous GetChild(parent, i) returns the same handle and leaves the
\* node table as it is.
C7_GetChildIdempotent ==
    [][(last'.op = "GetChild" /\ memo.valid /\ last'.a = memo.parent /\ last'.b = memo.index)
          => /\ last'.ret = memo.ret
             /\ node_table' = node_table
      ]_vars

\* C7 witness: the same GetChild was made twice and returned a handle.
C7_Witness ==
    /\ last.op = "GetChild"
    /\ memo.repeat
    /\ memo.ret >= 0

\* C8: a live foreign node has at most one handle and keeps it for its
\* whole lifetime: no two occupied slots hold the same pointer, and the slot
\* that holds a node is the handle the node was first given.
C8_OneHandlePerNode ==
    /\ \A h1, h2 \in Occupied(node_table) :
          node_table.items[h1 + 1] = node_table.items[h2 + 1] => h1 = h2
    /\ \A h \in Occupied(node_table) :
          /\ node_table.items[h + 1] \in DOMAIN issued
          /\ issued[node_table.items[h + 1]] = h

\* C9: a handle of one namespace given to an operation of the other behaves
\* as an invalid handle: a live node handle given to FreeConfig or
\* ConfigSetUseWebDefaults changes nothing, given to CreateNodeWithConfig it
\* yields a default-config node, and a live config handle given to a node
\* operation changes nothing and yields the default result.
C9_NamespaceIsolation ==
    [][/\ (last'.op \in {"FreeConfig", "ConfigSetUseWebDefaults"} /\ last'.a \in Occupied(node_table))
            => (configs' = configs /\ config_table' = config_table)
       /\ (last'.op = "CreateNodeWithConfig" /\ last'.a \in Occupied(node_table))
            => \A n \in DOMAIN nodes' \ DOMAIN nodes : nodes'[n].config = NULL
       /\ (last'.op \in {"FreeNode", "FreeSubtree", "StyleSet", "CalculateLayout"}
             /\ last'.a \in Occupied(config_table))
            => (nodes' = nodes /\ node_table' = node_table)
       /\ (last'.op \in {"InsertChild", "RemoveChild"}
             /\ (last'.a \in Occupied(config_table) \/ last'.b \in Occupied(config_table)))
            => (nodes' = nodes /\ node_table' = node_table)
       /\ (last'.op = "GetChildCount" /\ last'.a \in Occupied(config_table)) => last'.ret = 0
       /\ (last'.op = "GetChild" /\ last'.a \in Occupied(config_table))
            => (last'.ret = -1 /\ node_table' = node_table)
      ]_vars

\* A handle that is negative, at or beyond the table's range, or names an
\* empty slot.
Invalid(table, handle) ==
    \/ handle < 0
    \/ handle >= table.capacity
    \/ table.items[handle + 1] = NULL

Unchanged == UNCHANGED <<node_table, config_table, nodes, configs>>

\* C10: with an invalid handle FreeNode, FreeSubtree, FreeConfig,
\* CalculateLayout, the style setters, InsertChild and RemoveChild leave both
\* tables and the foreign heap unchanged; GetChildCount returns 0, the layout
\* getters return 0 and GetChild returns -1.
C10_InvalidHandleIsNoOp ==
    [][/\ (last'.op \in {"FreeNode", "FreeSubtree", "CalculateLayout", "StyleSet"}
             /\ Invalid(node_table, last'.a)) => Unchanged
       /\ (last'.op = "FreeConfig" /\ Invalid(config_table, last'.a)) => Unchanged
       /\ (last'.op \in {"InsertChild", "RemoveChild"}
             /\ (Invalid(node_table, last'.a) \/ Invalid(node_table, last'.b))) => Unchanged
       /\ (last'.op \in {"GetChildCount", "LayoutGet"} /\ Invalid(node_table, last'.a))
            => (last'.ret = 0 /\ Unchanged)
       /\ (last'.op = "GetChild" /\ Invalid(node_table, last'.a))
            => (last'.ret = -1 /\ Unchanged)
      ]_vars

\* C10 witness: GetChild on an empty slot inside the storage of a table that
\* also holds live handles returned -1.
C10_Witness ==
    /\ last.op = "GetChild"
    /\ last.ret = -1
    /\ last.a >= 0 /\ last.a < node_table.capacity
    /\ node_table.items[last.a + 1] = NULL
    /\ Occupied(node_table) # {}

\* The ids of a table's storage.
Slots(table) == 0..(Len(table.items) - 1)

\* Get(h) goes from absent to present in this step.
Revived(table, after, h) ==
    handle_table_get(table, h) = NULL /\ handle_table_get(after, h) # NULL

\* C11: after FreeNode(h) or FreeConfig(h) of a valid handle Get(h) is
\* absent, and an absent id resolves again only through a later Add that
\* returns it. Stated per step: a valid free leaves its handle absent, and a
\* step in which Get(h) turns from absent to present is an Add on that table
\* whose result is h.
C11_AbsentUntilAddedAgain ==
    [][/\ (last'.op = "FreeNode" /\ handle_table_get(node_table, last'.a) # NULL)
            => handle_table_get(node_table', last'.a) = NULL
       /\ (last'.op = "FreeConfig" /\ handle_table_get(config_table, last'.a) # NULL)
            => handle_table_get(config_table', last'.a) = NULL
       /\ node_table' # node_table
            => \A h \in Slots(node_table') :
                  Revived(node_table, node_table', h)
                     => (last'.op \in Adds \cup {"GetChild"} /\ last'.ret = h)
       /\ config_table' # config_table
            => \A h \in Slots(config_table') :
                  Revived(config_table, config_table', h)
                     => (last'.op = "CreateConfig" /\ last'.ret = h)
      ]_vars

\* C11 witness: a FreeNode removed a handle from a table that holds other
\* live handles: the id is on the free list and no longer resolves.
C11_Witness ==
    /\ last.op = "FreeNode"
    /\ node_table.free_list # <<>>
    /\ node_table.free_list[Len(node_table.free_list)] = last.a
    /\ handle_table_get(node_table, last.a) = NULL
    /\ Occupied(node_table) # {}

\* This step is an Add on the node table (a constructor, or a GetChild that
\* gives a child its first handle).
NodeAdd == last'.op \in Adds \/ (last'.op = "GetChild" /\ node_table' # node_table)

\* An Add that returned ret on a table with count ids issued and the removed
\* ids p pending took the most recently removed one, and took a fresh id only
\* with none pending.
TookNewestPending(p, count, ret) ==
    /\ p # <<>> => ret = p[Len(p)]
    /\ ret >= count => p = <<>>

\* C12: reuse is LIFO. With no compaction since the removals, an Add made
\* while removed ids are pending returns the most recently removed of them,
\* and an Add returns a fresh id only when none is pending.
C12_ReuseIsLIFO ==
    [][/\ NodeAdd => TookNewestPending(pending.node, node_table.count, last'.ret)
       /\ last'.op = "CreateConfig"
            => TookNewestPending(pending.config, config_table.count, last'.ret)
      ]_vars

\* C12 witness: an Add returned a removed id while older removed ids stay
\* pending.
C12_Witness ==
    /\ last.op \in Adds
    /\ last.ret >= 0
    /\ handle_table_get(node_table, last.ret) # NULL
    /\ Len(pending.node) >= 2
    /\ \A i \in 1..Len(pending.node) : pending.node[i] > last.ret

\* C13: an Add that returns -1 (null pointer, or a failed growth of the slot
\* array or of the free-list array) leaves both tables as they were, so every
\* handle live before it resolves to the same pointer after it.
C13_AddFailsAtomically ==
    [][(last'.op \in Adds \cup {"CreateConfig"} /\ last'.ret = -1)
          => /\ node_table' = node_table
             /\ config_table' = config_table
             /\ \A h \in Occupied(node_table) :
                   handle_table_get(node_table', h) = handle_table_get(node_table, h)
             /\ \A h \in Occupied(config_table) :
                   handle_table_get(config_table', h) = handle_table_get(config_table, h)
      ]_vars

\* C14: FreeNode(h) on a valid handle makes only h absent: every other
\* handle live before the call (those of h's children and of h's parent
\* among them) resolves to the same pointer after it.
C14_FreeNodeFrame ==
    [][(last'.op = "FreeNode" /\ handle_table_get(node_table, last'.a) # NULL)
          => /\ handle_table_get(node_table', last'.a) = NULL
             /\ \A h \in Occupied(node_table) \ {last'.a} :
                   handle_table_get(node_table', h) = handle_table_get(node_table, h)
      ]_vars

\* C15: InsertChild and RemoveChild reach the foreign tree only when both
\* handles resolve, and neither changes a handle table: after
\* RemoveChild(parent, child) the child's handle resolves to the same node,
\* which is still allocated.
C15_ChildOpsKeepTable ==
    [][last'.op \in {"InsertChild", "RemoveChild"}
          => LET parent == handle_table_get(node_table, last'.a)
                 child == handle_table_get(node_table, last'.b)
             IN  /\ node_table' = node_table
                 /\ config_table' = config_table
                 /\ (parent = NULL \/ child = NULL) => nodes' = nodes
                 /\ (last'.op = "RemoveChild" /\ child # NULL)
                       => /\ handle_table_get(node_table', last'.b) = child
                          /\ child \in DOMAIN nodes'
      ]_vars

\* C15 witness: RemoveChild detached the child of the root, a node with a
\* child of its own, and both handles resolve.
C15_Witness ==
    /\ last.op = "RemoveChild"
    /\ handle_table_get(node_table, last.a) # NULL
    /\ handle_table_get(node_table, last.b) # NULL
    /\ last.a # last.b
    /\ nodes[handle_table_get(node_table, last.a)].children = <<>>
    /\ nodes[handle_table_get(node_table, last.b)].owner = NULL
    /\ nodes[handle_table_get(node_table, last.b)].children # <<>>

\* C16: CreateNodeWithConfig(c) returns, for every c, a handle that resolves
\* to a newly constructed node in a slot that was empty; the node is built
\* with the config c resolves to, and with the default config (never with an
\* absent one) when c does not resolve.
C16_CreateNodeWithConfigFallback ==
    [][last'.op = "CreateNodeWithConfig"
          => LET config == handle_table_get(config_table, last'.a)
                 node == handle_table_get(node_table', last'.ret)
             IN  /\ last'.ret >= 0
                 /\ last'.ret \notin Occupied(node_table)
                 /\ node # NULL
                 /\ node \in DOMAIN nodes' \ DOMAIN nodes
                 /\ nodes'[node].config = config
                 /\ config # NULL => config \in DOMAIN configs
      ]_vars

\* C16 witness: CreateNodeWithConfig was given the id of a freed config, in
\* a config table that holds live configs, and returned a default-config node.
C16_Witness ==
    /\ last.op = "CreateNodeWithConfig"
    /\ last.a >= 0 /\ last.a < config_table.count
    /\ handle_table_get(config_table, last.a) = NULL
    /\ Occupied(config_table) # {}
    /\ handle_table_get(node_table, last.ret) # NULL
    /\ nodes[handle_table_get(node_table, last.ret)].config = NULL

ConfigOps == {"CreateConfig", "FreeConfig", "ConfigSetUseWebDefaults"}

\* C17: the two tables are independent: CreateConfig, FreeConfig (with any
\* compaction of the config table) and ConfigSetUseWebDefaults leave every
\* field of the node table unchanged, and every node operation leaves every
\* field of the config table unchanged.
C17_TablesIndependent ==
    [][/\ last'.op \in ConfigOps => node_table' = node_table
       /\ last'.op \notin ConfigOps => config_table' = config_table
      ]_vars

\* C17 witness: a FreeConfig compacted the config table while the node table
\* holds a live handle.
C17_Witness ==
    /\ last.op = "FreeConfig"
    /\ config_table.capacity = 0
    /\ config_table.high_water_mark = -1
    /\ Occupied(node_table) # {}

\* C18: in every reachable state of either table high_water_mark is the
\* largest occupied slot index, or -1 when no slot is occupied.
C18_HighWaterMarkIsMaxOccupied ==
    /\ node_table.high_water_mark = MaxOcc(node_table)
    /\ config_table.high_water_mark = MaxOcc(config_table)

\* Every id on the free list names an empty slot of the storage, and no id
\* is on it twice.
FreeListSound(table) ==
    /\ \A i \in 1..Len(table.free_list) :
          /\ table.free_list[i] \in Slots(table)
          /\ table.items[table.free_list[i] + 1] = NULL
    /\ Cardinality(Range(table.free_list)) = Len(table.free_list)

\* C19: in every reachable state, after any interleaving of Add, Remove,
\* FreeSubtree and compaction, every index on the free list of either table
\* names an empty slot and no index occurs twice on it.
C19_FreeListSound ==
    /\ FreeListSound(node_table)
    /\ FreeListSound(config_table)

\* C19 witness: a FreeNode compacted the node table to a smaller storage
\* that holds a live handle, and the rebuilt free list is not empty.
C19_Witness ==
    /\ last.op = "FreeNode"
    /\ pending.node = <<>>
    /\ node_table.capacity = MIN_CAPACITY
    /\ node_table.free_list # <<>>
    /\ Occupied(node_table) # {}

\* A free wrapper called with handle released all storage of the table.
ReleasedAll(table, handle, after) ==
    /\ handle_table_get(table, handle) # NULL
    /\ table.capacity > 0
    /\ after.capacity = 0

\* C20: when a compaction releases all backing storage and resets capacity
\* to 0, no slot of the table was occupied immediately before it; and in
\* every state reached, a node table of capacity 0 means that the caller
\* holds no handle that was issued and not freed since.
C20_ReleaseOnlyWhenEmpty ==
    [][/\ (last'.op = "FreeNode" /\ ReleasedAll(node_table, last'.a, node_table'))
            => Occupied(AfterRemove(node_table, last'.a)) = {}
       /\ (last'.op = "FreeConfig" /\ ReleasedAll(config_table, last'.a, config_table'))
            => Occupied(AfterRemove(config_table, last'.a)) = {}
       /\ node_table'.capacity = 0 => held' = {}
      ]_vars

\* The call just made was given a handle a that resolved in the node table.
ResolvedBefore == handle_table_get(before.node_table, last.a) # NULL

\* C21: after FreeSubtree(root) on a valid handle the root's id has been
\* returned to the free list, where the next Add finds it, and no other id
\* has: the ids of the descendants are cleared without being pushed.
C21_FreeSubtreeRecyclesRoot ==
    (last.op = "FreeSubtree" /\ ResolvedBefore)
        => node_table.free_list = Append(before.node_table.free_list, last.a)

\* The compaction trigger holds once a valid handle of the table prior has
\* been removed: the removal put one more id on the free list.
Triggered(prior) ==
    /\ Len(prior.free_list) + 1 > COMPACT_MIN_FREE
    /\ Len(prior.free_list) + 1 > prior.capacity \div 2

\* The capacity of a table went down in the call just made only if the call
\* is the table's free wrapper, on a handle that resolved, with the trigger
\* holding after the removal.
ShrinksOnlyWhenTriggered(table, prior, free) ==
    table.capacity < prior.capacity
        => /\ last.op = free
           /\ handle_table_get(prior, last.a) # NULL
           /\ Triggered(prior)

\* C22: compaction fires only from FreeNode / FreeConfig and only when,
\* after the removal, the free list holds more than 32 ids and more than half
\* of capacity: in every other call, and so in every sequence that keeps the
\* free count at 32 or below, capacity does not decrease.
C22_CompactionOnlyWhenTriggered ==
    /\ ShrinksOnlyWhenTriggered(node_table, before.node_table, "FreeNode")
    /\ ShrinksOnlyWhenTriggered(config_table, before.config_table, "FreeConfig")

\* C22 witness: a FreeNode with the trigger holding shrank the node table
\* from 8 * MIN_CAPACITY slots to MIN_CAPACITY.
C22_Witness ==
    /\ last.op = "FreeNode"
    /\ Triggered(before.node_table)
    /\ before.node_table.capacity = 8 * MIN_CAPACITY
    /\ node_table.capacity = MIN_CAPACITY

\* The call just made is a FreeNode of a valid handle after whose removal
\* the compaction trigger held.
CompactedNodeTable ==
    /\ last.op = "FreeNode"
    /\ ResolvedBefore
    /\ Triggered(before.node_table)

\* max(high_water_mark + 1, MIN_CAPACITY)
TargetCapacity(table) == Max({table.high_water_mark + 1, MIN_CAPACITY})

\* C23, as stated: whenever the trigger holds after a Remove and the table
\* is not empty (high_water_mark is not -1), the capacity after the
\* compaction is max(high_water_mark + 1, 16).
C23_CapacityIsTarget ==
    (CompactedNodeTable /\ AfterRemove(before.node_table, last.a).high_water_mark >= 0)
        => node_table.capacity = TargetCapacity(AfterRemove(before.node_table, last.a))

\* C23, amended: whenever the trigger holds after a Remove and
\* high_water_mark is not negative, the capacity after the compaction is
\* max(high_water_mark + 1, 16) if that is less than a quarter of the capacity
\* before, and the capacity before otherwise.
C23_CapacityIsTargetBelowQuarter ==
    (CompactedNodeTable /\ AfterRemove(before.node_table, last.a).high_water_mark >= 0)
        => LET target == TargetCapacity(AfterRemove(before.node_table, last.a))
           IN  node_table.capacity = IF target < before.node_table.capacity \div 4
                                     THEN target
                                     ELSE before.node_table.capacity

\* C23 witness: the trigger held after a FreeNode with max(high_water_mark
\* + 1, 16) a quarter of the capacity, and the capacity stayed.
C23_Witness ==
    /\ CompactedNodeTable
    /\ node_table.high_water_mark >= 0
    /\ before.node_table.capacity = 4 * MIN_CAPACITY
    /\ node_table.capacity = 4 * MIN_CAPACITY
    /\ Occupied(node_table) # {}

\* The call just made shrank the node table to a smaller, non-empty storage.
ShrunkNodeTable ==
    /\ last.op = "FreeNode"
    /\ node_table.capacity > 0
    /\ node_table.capacity < before.node_table.capacity

\* The empty slots of the storage of a table.
EmptySlots(table) == Slots(table) \ Occupied(table)

\* C24: after a compaction that shrinks the table the free list holds
\* exactly the empty slot indices of 0..capacity-1, each once, so that every
\* empty slot below the new capacity can be reused.
C24_FreeListIsEmptySlotsAfterShrink ==
    ShrunkNodeTable
        => /\ Range(node_table.free_list) = EmptySlots(node_table)
           /\ Len(node_table.free_list) = Cardinality(EmptySlots(node_table))

\* The call just made added a pointer to the node table.
NodeAdded == last.op \in Adds \/ (last.op = "GetChild" /\ node_table # before.node_table)

\* An Add that took table prior to table and returned ret reused the top of
\* the free list if there was one, and otherwise grew the storage only with
\* count = capacity: to MIN_CAPACITY from 0 and to the double otherwise, with
\* the old slots kept and the new ones empty but for the one returned.
AddedAsSpecified(prior, table, ret) ==
    IF prior.free_list # <<>>
    THEN /\ ret = prior.free_list[Len(prior.free_list)]
         /\ table.free_list = SubSeq(prior.free_list, 1, Len(prior.free_list) - 1)
         /\ table.capacity = prior.capacity
         /\ table.count = prior.count
    ELSE IF prior.count = prior.capacity
    THEN /\ ret = prior.count
         /\ table.capacity = IF prior.capacity = 0 THEN 16 ELSE 2 * prior.capacity
         /\ Len(table.items) = table.capacity
         /\ \A i \in Slots(prior) : table.items[i + 1] = prior.items[i + 1]
         /\ \A i \in Slots(table) \ (Slots(prior) \cup {ret}) : table.items[i + 1] = NULL
    ELSE /\ ret = prior.count
         /\ table.capacity = prior.capacity

\* C25: Add reuses a free id whenever the free list is not empty and grows
\* the storage only when the free list is empty and count equals capacity;
\* growth gives capacity 16 from 0 and doubles it otherwise, keeps the content
\* of every existing slot and leaves every new slot empty.
C25_AddReusesThenGrows ==
    /\ NodeAdded => AddedAsSpecified(before.node_table, node_table, last.ret)
    /\ last.op = "CreateConfig"
          => AddedAsSpecified(before.config_table, config_table, last.ret)

\* C25 witness: an Add with an empty free list and count = capacity doubled
\* a storage of 2 * MIN_CAPACITY occupied slots.
C25_Witness ==
    /\ last.op \in Adds
    /\ before.node_table.free_list = <<>>
    /\ before.node_table.capacity = 2 * MIN_CAPACITY
    /\ node_table.capacity = 4 * MIN_CAPACITY
    /\ Cardinality(Occupied(node_table)) = 2 * MIN_CAPACITY + 1

\* An Add that took table prior to table and returned ret changed the slot
\* ret, empty before, and no other.
AddChangedOneSlot(prior, table, ret) ==
    /\ ret \notin Occupied(prior)
    /\ ret \in Occupied(table)
    /\ \A i \in Slots(prior) \ {ret} : table.items[i + 1] = prior.items[i + 1]
    /\ \A i \in Slots(table) \ (Slots(prior) \cup {ret}) : table.items[i + 1] = NULL

\* C30: a successful Add changes exactly one slot: the slot of the handle
\* returned goes from empty to the pointer given, and every other slot keeps
\* its content, on the reuse path and across a growth of the storage.
C30_AddChangesOneSlot ==
    /\ (NodeAdded /\ last.ret >= 0)
          => /\ AddChangedOneSlot(before.node_table, node_table, last.ret)
             /\ handle_table_get(node_table, last.ret) \in DOMAIN nodes
    /\ (last.op = "CreateConfig" /\ last.ret >= 0)
          => /\ AddChangedOneSlot(before.config_table, config_table, last.ret)
             /\ handle_table_get(config_table, last.ret) \in DOMAIN configs

\* C30 witness: an Add on the reuse path, in a table with other live
\* handles above and below the id reused.
C30_Witness ==
    /\ last.op \in Adds
    /\ before.node_table.free_list # <<>>
    /\ \E lo, hi \in Occupied(node_table) : lo < last.ret /\ last.ret < hi

\* C26: immediately after a shrinking compaction count equals the new
\* capacity, not the number of occupied slots; and an Add made with an empty
\* free list and count = capacity grows the table and returns the id equal to
\* that capacity, whether or not there are empty slots below it.
C26_CountIsCapacityAfterShrink ==
    /\ ShrunkNodeTable => node_table.count = node_table.capacity
    /\ (NodeAdded /\ before.node_table.free_list = <<>>
           /\ before.node_table.capacity > 0
           /\ before.node_table.count = before.node_table.capacity)
          => /\ last.ret = before.node_table.capacity
             /\ node_table.capacity = 2 * before.node_table.capacity

\* C26 witness: an Add on a table of MIN_CAPACITY slots, count =
\* MIN_CAPACITY and an empty free list, with fewer than MIN_CAPACITY slots
\* occupied, returned MIN_CAPACITY and grew the table.
C26_Witness ==
    /\ NodeAdded
    /\ before.node_table.free_list = <<>>
    /\ before.node_table.count = MIN_CAPACITY
    /\ before.node_table.capacity = MIN_CAPACITY
    /\ EmptySlots(before.node_table) # {}
    /\ last.ret = MIN_CAPACITY
    /\ node_table.capacity = 2 * MIN_CAPACITY

\* Get(h) is a pointer exactly when h is inside the storage and its slot is
\* occupied, for every h from the sentinel to the first id past the storage.
GetIsSlot(table) ==
    \A h \in -1..table.capacity :
        handle_table_get(table, h) = IF 0 <= h /\ h < table.capacity THEN table.items[h + 1]
                                     ELSE NULL

\* C27: in every reachable state Get(h) returns a pointer exactly when
\* 0 <= h < capacity and slot h is occupied: bounding h by count agrees with
\* bounding it by capacity, every slot at or above count being empty.
C27_GetIffOccupied ==
    /\ GetIsSlot(node_table)
    /\ GetIsSlot(config_table)

\* C27 witness: a table whose count is below its capacity holds a live
\* handle above its high_water_mark.
C27_Witness ==
    /\ node_table.count < node_table.capacity
    /\ node_table.high_water_mark >= 0
    /\ node_table.high_water_mark < MaxOcc(node_table)
    /\ handle_table_get(node_table, MaxOcc(node_table)) # NULL

\* C28: no occupied slot of the node table holds a pointer to a foreign
\* node that has been natively freed.
C28_NoDanglingAlias ==
    \A h \in Occupied(node_table) : node_table.items[h + 1] \in DOMAIN nodes

\* C28 witness: a FreeNode natively freed a node while at least two other
\* handles stay live.
C28_Witness ==
    /\ last.op = "FreeNode"
    /\ ResolvedBefore
    /\ handle_table_get(before.node_table, last.a) \notin DOMAIN nodes
    /\ Cardinality(Occupied(node_table)) >= 2

\* 0 <= free_count <= count <= capacity, every free-list entry is below
\* count, and every slot at or above count is empty.
CountersOrdered(table) ==
    /\ 0 <= Len(table.free_list)
    /\ Len(table.free_list) <= table.count
    /\ table.count <= table.capacity
    /\ Len(table.items) = table.capacity
    /\ \A i \in 1..Len(table.free_list) : table.free_list[i] < table.count
    /\ \A i \in Slots(table) : i >= table.count => table.items[i + 1] = NULL

\* C29: in every reachable state of either table
\* 0 <= free_count <= count <= capacity, every free-list entry is below count
\* and every slot at or above count is empty.
C29_CountersOrdered ==
    /\ CountersOrdered(node_table)
    /\ CountersOrdered(config_table)

\* C29 witness: a FreeNode shrank the node table and left ids on the
\* rebuilt free list.
C29_Witness ==
    /\ ShrunkNodeTable
    /\ node_table.free_list # <<>>
    /\ node_table.count = node_table.capacity

\* The calls that are to leave both handle tables alone.
TableReaders ==
    {"CalculateLayout", "LayoutGet", "StyleSet", "GetChildCount", "ConfigSetUseWebDefaults",
     "InsertChild", "RemoveChild"}

\* C31: CalculateLayout, the layout getters, the style setters,
\* GetChildCount, ConfigSetUseWebDefaults, InsertChild and RemoveChild leave
\* every field of both tables unchanged, whatever handles they are given;
\* GetChild leaves the config table unchanged and changes the node table only
\* when the child was in no slot, and then by one Add of the child: one slot
\* goes from empty to the child and the others keep their content.
C31_OnlyAddAndFreeChangeTables ==
    /\ last.op \in TableReaders
          => (node_table = before.node_table /\ config_table = before.config_table)
    /\ last.op = "GetChild"
          => /\ config_table = before.config_table
             /\ node_table # before.node_table
                   => /\ AddChangedOneSlot(before.node_table, node_table, last.ret)
                      /\ \A i \in Slots(before.node_table) :
                            before.node_table.items[i + 1] # node_table.items[last.ret + 1]
                      /\ node_table.items[last.ret + 1] \in DOMAIN nodes

\* C31 witness: a GetChild gave a handle to a child that had none.
C31_Witness ==
    /\ last.op = "GetChild"
    /\ node_table # before.node_table
    /\ last.ret >= 0
    /\ nodes[handle_table_get(node_table, last.ret)].owner
          = handle_table_get(node_table, last.a)

\* C32: yoga_node_new_with_config_wrapper(c) builds a default-config node
\* (calls YGNodeNew) for every c that is not the handle of a live config,
\* a released in-range c included, and never hands a null config to
\* YGNodeNewWithConfig.
C32_SimpleFallback ==
    last.op = "yoga_node_new_with_config_wrapper"
        => /\ ~SlotLive(config_handles, last.a) => last.calls[1][1] = "YGNodeNew"
           /\ \A i \in 1..Len(last.calls) :
                 last.calls[i][1] = "YGNodeNewWithConfig" => last.calls[i][2] # NULL

\* C33: between calls, while raw mode is on the saved settings are those the
\* terminal had when the call that turned raw mode on began (no later
\* setTerminalRawMode overwrites them); after a restoreTerminalMode that
\* returned 0 with raw mode on, the terminal the switching call used has
\* those settings again and raw mode is off; and a descriptor on /dev/tty is
\* open only while raw mode is on, when it is tty_fd.
C33_RawModeRestoresSaved ==
    /\ raw_mode_enabled => orig_termios = enabled_with.termios
    /\ (tui_last.op = "restoreTerminalMode" /\ tui_last.ret = 0 /\ tui_last.was_raw)
          => /\ settings[Device(enabled_with.fd)] = enabled_with.termios
             /\ ~raw_mode_enabled
    /\ (tui_last.op = "setTerminalRawMode" /\ tui_last.was_raw)
          => (tui_last.ret = 0 /\ raw_mode_enabled)
    /\ descriptors = {tty_fd} \ {-1}
    /\ tty_fd # -1 => raw_mode_enabled

\* C33 witness: raw mode was turned on through /dev/tty when the terminal
\* was not in its first settings, and a restore has put them back.
C33_Witness ==
    /\ tui_last.op = "restoreTerminalMode"
    /\ tui_last.ret = 0
    /\ tui_last.was_raw
    /\ enabled_with.fd # STDIN_FILENO
    /\ enabled_with.termios = {"ECHO", "CS8"}
    /\ settings["/dev/tty"] = {"ECHO", "CS8"}

C35_GlobalTermAllocated == global_term = NULL \/ global_term \in DOMAIN terminals

====
